---- MODULE Spec2Model ----
(***************************************************************************)
(* AsxGymEnv (src/asx_gym/envs/asx_gym_env.py): the episode state machine, *)
(* the ledger and the daily price simulation.                              *)
(*                                                                         *)
(* Numbers.  Every amount of money and every price is a Python float, an   *)
(* IEEE-754 double, and is modelled as one: sign * man * 2^exp with a      *)
(* mantissa of 53 bits kept as limbs, the operations rounding to nearest,  *)
(* a tie to the even mantissa, as the hardware does.  round(x, n) is what  *)
(* CPython computes: the decimal of n digits nearest to the value the      *)
(* float holds, then the float nearest to that decimal.  Decimal literals  *)
(* are written as counts of 1/10000 dollar and converted by Amount.        *)
(* Volumes are whole shares and are kept as integers; -0.0 is not told     *)
(* from 0.0, which no comparison of the program tells apart either.        *)
(***************************************************************************)
EXTENDS Integers, Sequences, FiniteSets, TLC

VARIABLES
    episode,                    \* self.episode
    global_step_count,          \* self.global_step_count, counted up to MaxTradeSteps
    step_day_count,             \* self.step_day_count       (day_index)
    step_minute_count,          \* self.step_minute_count    (tick counter)
    need_move_day_forward,      \* self.need_move_day_forward (rollover flag)
    min_stock_seq,              \* self.min_stock_seq: index row of day 0
    display_date,               \* self.display_date
    available_fund,             \* self.available_fund
    previous_total_fund,        \* self.previous_total_fund
    bank_balance,               \* self.bank_balance
    portfolios,                 \* self.portfolios: company id -> StockRecord
    portfolio_keys,             \* the keys of self.portfolios, in the order of insertion
    total_value,                \* self.total_value
    reward,                     \* self.reward
    summaries,                  \* self.summaries['transactions']
    info,                       \* self.info
    self_action,                \* self.action: the action of the last step that applied one
    daily_simulation_data,      \* self.daily_simulation_data: id -> simulation
    daily_simulation_prices,    \* self.daily_simulation_prices: id -> prices
    cached_simulation_records,  \* self.cached_simulation_records
    total_value_history_file,   \* self.total_value_history_file is open
    ret,                        \* what the last call of reset/step returned
    np_random,                  \* self.np_random: the seed it was just seeded with, or Drawn
    seeded_draw,                \* history: what the reset that began the episode selected, if
                                \* its generator was freshly seeded and no step came since
    first_reward_pending,       \* history: no step of this episode has computed a reward yet
    plain_steps                 \* history: steps since the reset or the last rollover; -1 once
                                \* a step of the episode set end_batch, terminated or raised

vars == << episode, global_step_count, step_day_count, step_minute_count, need_move_day_forward,
           min_stock_seq, display_date, available_fund, previous_total_fund,
           bank_balance, portfolios, portfolio_keys, total_value, reward, summaries, info,
           self_action, daily_simulation_data, daily_simulation_prices,
           cached_simulation_records, total_value_history_file, ret, np_random, seeded_draw,
           first_reward_pending, plain_steps >>

----------------------------------------------------------------------------
(* Floats *)

\* limbs of the naturals that do not fit a machine integer
LimbBits == 14
Limb == 16384

\* 2^n for n < LimbBits
Pow2(n) == << 1, 2, 4, 8, 16, 32, 64, 128, 256, 512, 1024, 2048, 4096, 8192 >>[n + 1]

RECURSIVE BitLength(_)
BitLength(n) == IF n = 0 THEN 0 ELSE 1 + BitLength(n \div 2)

\* a natural as its limbs, lowest first, the highest not 0; << >> is 0
RECURSIVE BigOfInt(_)
BigOfInt(n) == IF n = 0 THEN << >> ELSE << n % Limb >> \o BigOfInt(n \div Limb)

RECURSIVE BigToInt(_)
BigToInt(a) == IF a = << >> THEN 0 ELSE a[1] + Limb * BigToInt(Tail(a))

RECURSIVE BigTrim(_)
BigTrim(a) ==
    IF a = << >> THEN a
    ELSE IF a[Len(a)] = 0 THEN BigTrim(SubSeq(a, 1, Len(a) - 1)) ELSE a

BigLimb(a, i) == IF i <= Len(a) THEN a[i] ELSE 0

RECURSIVE BigAddFrom(_, _, _, _)
BigAddFrom(a, b, i, carry) ==
    IF i > Len(a) /\ i > Len(b) THEN (IF carry = 0 THEN << >> ELSE << carry >>)
    ELSE LET s == BigLimb(a, i) + BigLimb(b, i) + carry
         IN  << s % Limb >> \o BigAddFrom(a, b, i + 1, s \div Limb)

BigAdd(a, b) == BigAddFrom(a, b, 1, 0)

\* a - b for a >= b
RECURSIVE BigSubFrom(_, _, _, _)
BigSubFrom(a, b, i, borrow) ==
    IF i > Len(a) THEN << >>
    ELSE LET s == a[i] - BigLimb(b, i) - borrow
         IN  IF s < 0 THEN << s + Limb >> \o BigSubFrom(a, b, i + 1, 1)
             ELSE << s >> \o BigSubFrom(a, b, i + 1, 0)

BigSub(a, b) == BigTrim(BigSubFrom(a, b, 1, 0))

\* -1, 0, 1 as a < b, a = b, a > b
RECURSIVE BigCmpFrom(_, _, _)
BigCmpFrom(a, b, i) ==
    IF i = 0 THEN 0
    ELSE IF a[i] < b[i] THEN -1
    ELSE IF a[i] > b[i] THEN 1
    ELSE BigCmpFrom(a, b, i - 1)

BigCmp(a, b) ==
    IF Len(a) < Len(b) THEN -1
    ELSE IF Len(a) > Len(b) THEN 1
    ELSE BigCmpFrom(a, b, Len(a))

\* a * k for 0 <= k < 2^16
RECURSIVE BigMulSmallFrom(_, _, _, _)
BigMulSmallFrom(a, k, i, carry) ==
    IF i > Len(a) THEN BigOfInt(carry)
    ELSE LET s == a[i] * k + carry
         IN  << s % Limb >> \o BigMulSmallFrom(a, k, i + 1, s \div Limb)

BigMulSmall(a, k) == IF k = 0 THEN << >> ELSE BigMulSmallFrom(a, k, 1, 0)

BigShiftLimbs(a, n) == IF a = << >> THEN a ELSE [i \in 1..n |-> 0] \o a

\* a * b from the limb i of b on, that limb counted as the lowest
RECURSIVE BigMulFrom(_, _, _)
BigMulFrom(a, b, i) ==
    IF i > Len(b) THEN << >>
    ELSE BigAdd(BigShiftLimbs(BigMulSmall(a, b[i]), i - 1), BigMulFrom(a, b, i + 1))

\* a * 2^n
BigShl(a, n) == BigShiftLimbs(BigMulSmall(a, Pow2(n % LimbBits)), n \div LimbBits)

\* quotient and remainder of a by d, 0 < d < 2^16: quot holds the limbs found so far,
\* highest first
RECURSIVE BigDivSmallFrom(_, _, _, _, _)
BigDivSmallFrom(a, d, i, n, quot) ==
    IF i = 0 THEN [quot |-> BigTrim(quot), rem |-> n \div Limb]
    ELSE BigDivSmallFrom(a, d, i - 1, ((n + a[i]) % d) * Limb, << (n + a[i]) \div d >> \o quot)

BigDivSmall(a, d) == BigDivSmallFrom(a, d, Len(a), 0, << >>)

\* floor(a / 2^n)
BigShr(a, n) ==
    IF n \div LimbBits >= Len(a) THEN << >>
    ELSE BigDivSmall(SubSeq(a, n \div LimbBits + 1, Len(a)), Pow2(n % LimbBits)).quot

BigBits(a) == IF a = << >> THEN 0 ELSE LimbBits * (Len(a) - 1) + BitLength(a[Len(a)])

----------------------------------------------------------------------------
\* IEEE-754 doubles: sign * man * 2^exp with 2^52 <= man < 2^53, or zero
MantissaBits == 53

Zero == [sign |-> 1, man |-> << >>, exp |-> 0]

IsZero(x) == x.man = << >>

\* n / 2^d as the nearest whole number, a tie going to the even one (to the one above
\* when sticky), given t = floor(n / 2^(d - 1)) and q = floor(t / 2)
BigHalfEven(n, d, t, q, sticky) ==
    IF BigLimb(t, 1) % 2 = 1 /\ (sticky \/ BigLimb(q, 1) % 2 = 1 \/ BigShl(t, d - 1) # n)
    THEN BigAdd(q, << 1 >>)
    ELSE q

BigNearestOf(n, d, t, sticky) == BigHalfEven(n, d, t, BigShr(t, 1), sticky)

\* the whole number nearest to n / 2^d, for d > 0
BigNearest(n, d, sticky) == BigNearestOf(n, d, BigShr(n, d - 1), sticky)

\* sign * r * 2^exp, for r of MantissaBits bits or one more, then a power of 2
FloatOfMantissa(sign, r, exp) ==
    IF BigBits(r) > MantissaBits
    THEN [sign |-> sign, man |-> BigShr(r, 1), exp |-> exp + 1]
    ELSE [sign |-> sign, man |-> r, exp |-> exp]

FloatRoundBits(sign, n, exp, sticky, bits) ==
    IF bits <= MantissaBits
    THEN [sign |-> sign, man |-> BigShl(n, MantissaBits - bits),
          exp |-> exp - (MantissaBits - bits)]
    ELSE FloatOfMantissa(sign, BigNearest(n, bits - MantissaBits, sticky),
                         exp + bits - MantissaBits)

\* the double nearest to sign * n * 2^exp (to a value just above it when sticky),
\* a tie going to the even mantissa
FloatRound(sign, n, exp, sticky) ==
    IF n = << >> THEN Zero ELSE FloatRoundBits(sign, n, exp, sticky, BigBits(n))

FloatOfDivided(sign, dv, s) == FloatRound(sign, dv.quot, 0 - s, dv.rem # 0)

FloatOfScaled(sign, n, d, s) == FloatOfDivided(sign, BigDivSmall(BigShl(n, s), d), s)

\* the double nearest to n / d, for a natural n given by its limbs and 0 < d < 2^16
FloatOfQuotient(sign, n, d) ==
    IF n = << >> THEN Zero
    ELSE FloatOfScaled(sign, n, d, IF 56 + BitLength(d) > BigBits(n)
                                   THEN 56 + BitLength(d) - BigBits(n) ELSE 0)

\* float(k) of an integer
FloatOfInt(k) ==
    IF k = 0 THEN Zero
    ELSE FloatRound(IF k < 0 THEN -1 ELSE 1, BigOfInt(IF k < 0 THEN 0 - k ELSE k), 0, FALSE)

\* the integer an integral double holds
FloatToInt(x) ==
    IF IsZero(x) THEN 0
    ELSE x.sign * BigToInt(IF x.exp >= 0 THEN BigShl(x.man, x.exp)
                           ELSE BigShr(x.man, 0 - x.exp))

\* -1, 0, 1 as x < y, x = y, x > y
FloatCmp(x, y) ==
    IF IsZero(x) THEN (IF IsZero(y) THEN 0 ELSE 0 - y.sign)
    ELSE IF IsZero(y) THEN x.sign
    ELSE IF x.sign # y.sign THEN x.sign
    ELSE IF x.exp # y.exp THEN (IF x.exp < y.exp THEN 0 - x.sign ELSE x.sign)
    ELSE x.sign * BigCmp(x.man, y.man)

FloatLt(x, y) == FloatCmp(x, y) < 0
FloatLe(x, y) == FloatCmp(x, y) <= 0
FloatGt(x, y) == FloatCmp(x, y) > 0
FloatGe(x, y) == FloatCmp(x, y) >= 0

\* x + y for the mantissas a of x and b of y at the exponent e, and c as a < b, a = b,
\* a > b
FloatAddOf(x, y, e, a, b, c) ==
    FloatRound(IF x.sign = y.sign \/ c >= 0 THEN x.sign ELSE y.sign,
               IF x.sign = y.sign THEN BigAdd(a, b)
               ELSE IF c = 0 THEN << >>
               ELSE BigSub(IF c > 0 THEN a ELSE b, IF c > 0 THEN b ELSE a),
               e, FALSE)

FloatAddAligned(x, y, e, a, b) == FloatAddOf(x, y, e, a, b, BigCmp(a, b))

FloatAddAt(x, y, e) ==
    FloatAddAligned(x, y, e, BigShl(x.man, x.exp - e), BigShl(y.man, y.exp - e))

\* x + y
FloatAdd(x, y) ==
    IF IsZero(x) THEN y
    ELSE IF IsZero(y) THEN x
    ELSE FloatAddAt(x, y, IF x.exp < y.exp THEN x.exp ELSE y.exp)

\* x - y
FloatSub(x, y) == FloatAdd(x, IF IsZero(y) THEN y ELSE [y EXCEPT !.sign = 0 - y.sign])

\* x * y
FloatMul(x, y) ==
    IF IsZero(x) \/ IsZero(y) THEN Zero
    ELSE FloatRound(x.sign * y.sign, BigMulFrom(x.man, y.man, 1), x.exp + y.exp, FALSE)

\* the next limb of a quotient, floor(r * Limb / d), and the remainder it leaves, for
\* r < d and 2^52 <= d < 2^53: an estimate from the leading bits that is never too
\* large, then put right
RECURSIVE BigDigitFrom(_, _, _)
BigDigitFrom(digit, rem, d) ==
    IF BigCmp(rem, d) >= 0 THEN BigDigitFrom(digit + 1, BigSub(rem, d), d)
    ELSE [digit |-> digit, rem |-> rem]

BigDigitOf(r, d, estimate) ==
    BigDigitFrom(estimate, BigSub(BigShiftLimbs(r, 1), BigMulSmall(d, estimate)), d)

BigDigit(r, d) ==
    BigDigitOf(r, d, (BigToInt(BigShr(r, 38)) * Limb) \div (BigToInt(BigShr(d, 38)) + 1))

\* count more limbs of the quotient of rem * Limb^count by d, put before the limbs quot
\* (lowest first), and the remainder they leave
RECURSIVE BigQuotientFrom(_, _, _, _)
RECURSIVE BigQuotientNext(_, _, _, _)
BigQuotientFrom(rem, d, count, quot) ==
    IF count = 0 THEN [quot |-> quot, rem |-> rem]
    ELSE BigQuotientNext(BigDigit(rem, d), d, count, quot)

BigQuotientNext(next, d, count, quot) ==
    BigQuotientFrom(next.rem, d, count - 1, << next.digit >> \o quot)

FloatDivOf(x, y, q) ==
    FloatRound(x.sign * y.sign, BigTrim(q.quot), x.exp - y.exp - 4 * LimbBits,
               q.rem # << >>)

FloatDivFrom(x, y, first) ==
    FloatDivOf(x, y, BigQuotientFrom(IF first THEN BigSub(x.man, y.man) ELSE x.man,
                                     y.man, 4, << IF first THEN 1 ELSE 0 >>))

\* x / y for y # 0
FloatDiv(x, y) ==
    IF IsZero(x) THEN Zero ELSE FloatDivFrom(x, y, BigCmp(x.man, y.man) >= 0)

\* 10^n for n <= 4
Pow10(n) == << 1, 10, 100, 1000, 10000 >>[n + 1]

\* the whole number nearest to |x| * 10^ndigits, a tie to the even one (0 <= ndigits <= 4)
NearestDecimal(x, ndigits) ==
    IF IsZero(x) THEN << >>
    ELSE IF x.exp >= 0 THEN BigShl(BigMulSmall(x.man, Pow10(ndigits)), x.exp)
    ELSE BigNearest(BigMulSmall(x.man, Pow10(ndigits)), 0 - x.exp, FALSE)

----------------------------------------------------------------------------
(* Units and rounding *)

Milli == 10
Dollar == 1000 * Milli

\* the float a decimal literal of units / 10000 denotes: the double nearest to it
Amount(units) ==
    IF units = 0 THEN Zero
    ELSE FloatOfQuotient(IF units < 0 THEN -1 ELSE 1,
                         BigOfInt(IF units < 0 THEN 0 - units ELSE units), Dollar)

\* round(x, ndigits): the float nearest to the decimal of ndigits digits nearest to x
round(x, ndigits) ==
    IF IsZero(x) THEN x
    ELSE FloatOfQuotient(x.sign, NearestDecimal(x, ndigits), Pow10(ndigits))

\* round(x, 3) and round(x, 2) of an amount x
Round3(x) == round(x, 3)
Round2(x) == round(x, 2)

Min(a, b) == IF a <= b THEN a ELSE b

----------------------------------------------------------------------------
(* Configuration (keyword arguments of the constructor) *)

initial_fund == FloatOfInt(10)
initial_bank_balance == 0
\* expected_fund_decrease_ratio = 0.9 and expected_fund_increase_ratio = 1.1
expected_fund_decrease_ratio == Amount(9000)
expected_fund_increase_ratio == Amount(11000)
max_transaction_days == 3

\* stock operations of an order (asx_gym/envs/constants.py)
HOLD_STOCK == "hold"
BUY_STOCK == "buy"
SELL_STOCK == "sell"
TOP_UP_FUND == "top_up"
WITHDRAW_FUND == "withdraw"

\* values of display_date that are not a date
NoDate == -1        \* None
EmptyDate == -2     \* ''

----------------------------------------------------------------------------
(* The historical data read by _load_stock_data.  Dates are numbered by    *)
(* their row in index_df (Seq): date d is the d-th trading day.            *)

\* number of rows of index_df
NumIndexRows == 3

\* denominator of the normalized prices of daily_simulation_df
NormDen == 2

\* the rows (company_id, open, close, high, low) of price_df by date, in table order,
\* the prices as the decimal literals of the table, in units.  Companies 1 and 2 are
\* simulated on some dates, 3 never is (its ratio has no template), 4 is in no table,
\* the bar of 5 has high = 0, the bar of 6 has high = low, the bar of 7 has the ratio
\* of that of 2
PriceTable ==
    << << << 1, 7 * (Dollar \div 2), 7 * (Dollar \div 2), 4 * Dollar, 3 * Dollar >>,
          << 2, 2 * Dollar, 17 * (Dollar \div 8), 17 * (Dollar \div 8), 2 * Dollar >>,
          << 7, 16 * Dollar, 17 * Dollar, 17 * Dollar, 16 * Dollar >> >>,
       << << 1, 3 * Dollar, 4 * Dollar, 4 * Dollar, 3 * Dollar >>,
          << 5, 0, 0, 0, 0 >>,
          << 2, 2 * Dollar, 17 * (Dollar \div 8), 17 * (Dollar \div 8), 2 * Dollar >> >>,
       << << 1, 6 * Dollar, 8 * Dollar, 8 * Dollar, 6 * Dollar >>,
          << 3, 1 * Dollar, 2 * Dollar, 2 * Dollar, 1 * Dollar >>,
          << 6, 5 * Dollar, 5 * Dollar, 5 * Dollar, 5 * Dollar >> >> >>

\* a row of price_df, with the floats its prices hold
PriceRow(row) ==
    [company_id |-> row[1], open_price |-> Amount(row[2]), close_price |-> Amount(row[3]),
     high_price |-> Amount(row[4]), low_price |-> Amount(row[5])]

\* the rows of price_df by date, in table order
PriceRows ==
    [d \in 1..NumIndexRows |->
        [i \in 1..Len(PriceTable[d]) |-> PriceRow(PriceTable[d][i])] @@ << >>] @@ << >>

\* price_df: the rows (company_id, open, close, high, low) of a date, in table order
price_df(date) == IF date \in 0..(NumIndexRows - 1) THEN PriceRows[date + 1] ELSE << >>

\* one row of daily_simulation_df; the normalized prices are counted in 1/NormDen,
\* normalized_low_price (the ratio low/high of the recorded day) in thousandths
TemplateRow(cid, day, seconds, ask, bid, price, ratio) ==
    [cid |-> cid, day |-> day, seconds |-> seconds,
     normalized_ask_price |-> ask, normalized_bid_price |-> bid,
     normalized_stock_price |-> price, normalized_low_price |-> ratio,
     normalized_high_price |-> 1000]

\* the rows of a recorded day that is longer than a simulation: its ratio is 0.9
LongTemplateTicks == 24

daily_simulation_df ==
    { TemplateRow(10, 12, 900 * i, i % 3, (i + 1) % 3, (i + 2) % 3, 900) :
          i \in 0..(LongTemplateTicks - 1) } \cup
    { TemplateRow(7, 10, 600, 0, 0, 0, 750),
      TemplateRow(7, 10, 0, 2, 1, 2, 750),
      TemplateRow(7, 10, 1200, 2, 2, 2, 750),
      TemplateRow(8, 11, 0, 1, 1, 1, 750),
      TemplateRow(8, 11, 900, 1, 0, 1, 750),
      TemplateRow(9, 10, 900, 2, 1, 2, 941),
      TemplateRow(9, 10, 0, 1, 0, 1, 941) }

----------------------------------------------------------------------------
(* StockDailySimulationPrices (asx_gym/envs/models.py) *)

StockDailySimulationPrices(company_id, open_price, close_price, high_price, low_price) ==
    [company_id |-> company_id, open_price |-> open_price, close_price |-> close_price,
     high_price |-> high_price, low_price |-> low_price, prices |-> << >>, index |-> 1]

\* the floats the normalized prices of daily_simulation_df hold: k / NormDen at k + 1
NormalizedFloats == [k \in 0..NormDen |-> FloatOfQuotient(1, BigOfInt(k), NormDen)] @@ << >>

\* price = low + normalized * (high - low)
Denormalize(sim, normalized) ==
    FloatAdd(sim.low_price,
             FloatMul(NormalizedFloats[normalized], FloatSub(sim.high_price, sim.low_price)))

\* prices: a sequence of (normalized ask, normalized bid, normalized trade price)

init_simulation_prices(sim, prices) ==
    [sim EXCEPT !.prices =
        [i \in 1..Len(prices) |->
            [ask_price |-> Denormalize(sim, prices[i][1]),
             bid_price |-> Denormalize(sim, prices[i][2]),
             price |-> Denormalize(sim, prices[i][3])]] @@ << >>,
     !.index = 1]

\* the prices of the current tick; the simulation then moves to the next tick and
\* stays on the last one
get_next_prices(sim) ==
    [prices |-> sim.prices[sim.index],
     sim |-> [sim EXCEPT !.index = Min(sim.index + 1, Len(sim.prices))]]

\* "if simulations:" -- a simulation with no tick counts as none
SimulationIsTrue(sim) == Len(sim.prices) > 0

----------------------------------------------------------------------------
(* Maps (Python dicts) as functions with a finite domain *)

EmptyMap == [k \in {} |-> 0]

Put(map, key, value) == (key :> value) @@ map

----------------------------------------------------------------------------
(* Price synthesis *)

\* the most ticks a simulation takes from a template
MaxTemplateTicks == 22

\* price / high_price raises ZeroDivisionError when high_price is 0.0: the call returns
\* no ratio
ZeroDivisionError == -1

\* normalized_price(high_price, price) = round(price / high_price, 3), in thousandths
\* (prices are not negative)
normalized_price(high_price, price) ==
    IF IsZero(high_price) THEN ZeroDivisionError
    ELSE BigToInt(NearestDecimal(FloatDiv(price, high_price), 3))

\* the rows of daily_simulation_df by their recorded ratio
TemplatesByRatio ==
    [ratio \in {r.normalized_low_price : r \in daily_simulation_df} |->
        {r \in daily_simulation_df : r.normalized_low_price = ratio}]

TemplatesOfRatio_Any(ratio) == daily_simulation_df

\* daily_simulation_df[daily_simulation_df.normalized_low_price == ratio]
TemplatesOfRatio(ratio) ==
    IF ratio \in DOMAIN TemplatesByRatio THEN TemplatesByRatio[ratio] ELSE {}

\* the rows of a set, sorted by seconds
RECURSIVE SortedBySeconds(_)
SortedBySeconds(rows) ==
    IF rows = {} THEN << >>
    ELSE LET first == CHOOSE r \in rows : \A o \in rows : r.seconds <= o.seconds
         IN  << first >> \o SortedBySeconds(rows \ {first})

\* what the two shuffles can select among the rows: a day, then a company of that day
TemplateChoices(rows) ==
    {[day |-> d, cid |-> c] : d \in {r.day : r \in rows}, c \in {r.cid : r \in rows}}
        \cap {[day |-> r.day, cid |-> r.cid] : r \in rows}

\* the first MaxTemplateTicks of the rows, as (normalized ask, bid, trade price)
SelectedPrices(rows) ==
    [i \in 1..Min(Len(rows), MaxTemplateTicks) |->
        << rows[i].normalized_ask_price, rows[i].normalized_bid_price,
           rows[i].normalized_stock_price >>] @@ << >>

\* the simulation filled from the rows of selected_simulations of the (day, company) the
\* shuffles select, sorted by seconds, and the cache with selected_simulations
GeneratedFrom(cache, simulations, ratio, selected_simulations, choice) ==
    [simulations |->
        init_simulation_prices(simulations,
            IF selected_simulations # {}
            THEN SelectedPrices(SortedBySeconds({r \in selected_simulations :
                                                    r.day = choice.day /\ r.cid = choice.cid}))
            ELSE << >>),
     cache |-> IF ratio \in DOMAIN cache THEN cache ELSE Put(cache, ratio, selected_simulations),
     raised |-> FALSE]

\* the call from the ratio of the bar on.  When normalized_price raised, the call ends
\* there: nothing is returned and the cache is as it was
GeneratedForRatio(cache, simulations, ratio, choice) ==
    IF ratio = ZeroDivisionError
    THEN [simulations |-> simulations, cache |-> cache, raised |-> TRUE]
    ELSE GeneratedFrom(cache, simulations, ratio,
                       IF ratio \in DOMAIN cache THEN cache[ratio] ELSE TemplatesOfRatio(ratio),
                       choice)

\* the simulation of one company for one price bar, and the cache it leaves;
\* choice is the (day, company) the shuffles select
_generate_daily_simulation_price_for_company(cache, company_id, open_price, close_price, high_price, low_price, choice) ==
    GeneratedForRatio(cache,
                      StockDailySimulationPrices(company_id, open_price, close_price,
                                                 high_price, low_price),
                      normalized_price(high_price, low_price), choice)

\* the choices the shuffles can make for every row of a date: company id -> (day, company)
NoChoice == [day |-> 0, cid |-> 0]

\* the choices for the rows from a row on: one of its templates for every row that has
\* some, NoChoice for the others; no row after one whose ratio raises is reached
RECURSIVE ChoicesFrom(_, _)
RECURSIVE ChoicesForRatio(_, _, _, _)
ChoicesFrom(rows, from) ==
    IF from > Len(rows) THEN {EmptyMap}
    ELSE ChoicesForRatio(rows, from,
                         normalized_price(rows[from].high_price, rows[from].low_price),
                         ChoicesFrom(rows, from + 1))

ChoicesForRatio(rows, from, ratio, others) ==
    {Put(ch, rows[from].company_id, c) :
        ch \in IF ratio = ZeroDivisionError
               THEN {[i \in {rows[j].company_id : j \in (from + 1)..Len(rows)} |-> NoChoice]}
               ELSE others,
        c \in IF TemplatesOfRatio(ratio) = {}
              THEN {NoChoice} ELSE TemplateChoices(TemplatesOfRatio(ratio))}

\* the choices for every date of price_df, at date + 1
ChoicesByDate == [d \in 1..NumIndexRows |-> ChoicesFrom(PriceRows[d], 1)] @@ << >>

ChoicesOfDate(date) == ChoicesByDate[date + 1]

\* the rows of price_df[from..] one after another; the loop ends at a row that raises,
\* with what the rows before it left in the two dicts
RECURSIVE GenerateFrom(_, _, _, _, _)
RECURSIVE GenerateNext(_, _, _, _, _)
GenerateFrom(rows, from, data, cache, choices) ==
    IF from > Len(rows)
    THEN [daily_simulation_data |-> data, cached_simulation_records |-> cache,
          raised |-> FALSE]
    ELSE GenerateNext(rows, from, data, choices,
                      _generate_daily_simulation_price_for_company(
                          cache, rows[from].company_id, rows[from].open_price,
                          rows[from].close_price, rows[from].high_price,
                          rows[from].low_price, choices[rows[from].company_id]))

\* the loop after the call for the row from returned or raised g
GenerateNext(rows, from, data, choices, g) ==
    IF g.raised
    THEN [daily_simulation_data |-> data, cached_simulation_records |-> g.cache,
          raised |-> TRUE]
    ELSE GenerateFrom(rows, from + 1,
                      IF SimulationIsTrue(g.simulations)
                      THEN Put(data, g.simulations.company_id, g.simulations)
                      ELSE data,
                      g.cache, choices)

_generate_daily_simulation_price_for_companies_KeepsCache(current_date, choices) ==
    GenerateFrom(price_df(current_date), 1, EmptyMap, cached_simulation_records, choices)

\* what the generation leaves for every date of price_df (at date + 1) and every choice
\* of the shuffles: the loop over the rows of the date, from two empty dicts
GeneratedByDate ==
    [d \in 1..NumIndexRows |->
        [choices \in ChoicesOfDate(d - 1) |->
            GenerateFrom(price_df(d - 1), 1, EmptyMap, EmptyMap, choices)] @@ EmptyMap] @@ << >>

\* simulate_company_list is None: every company of the date is simulated
_generate_daily_simulation_price_for_companies(current_date, choices) ==
    GeneratedByDate[current_date + 1][choices]

----------------------------------------------------------------------------
(* The ledger: [available_fund, portfolios, keys, summaries]; keys are the  *)
(* keys of the dict portfolios in the order they were inserted, the order  *)
(* in which a loop over the dict meets them                                *)

StockRecord(company_id, volume, buy_price, sell_price, price) ==
    [company_id |-> company_id, volume |-> volume, buy_price |-> buy_price,
     sell_price |-> sell_price, price |-> price]

\* the float 1e-5
Epsilon == FloatOfQuotient(1, << 1 >>, 100000)

\* volume * price of a whole volume
VolumeTimes(volume, price) == FloatMul(FloatOfInt(volume), price)

\* all = round(fund / price, 0), less 1 if fund < all * price
BuyVolumeOf(fund, price, all) ==
    IF FloatLt(fund, VolumeTimes(all, price)) THEN all - 1 ELSE all

\* if (volume < 1e-5) and (price > 1e-5): volume = round(fund / price, 0), less 1
\* if fund < volume * price
BuyVolume(fund, price, volume) ==
    IF volume <= 0 /\ FloatGt(price, Epsilon)
    THEN BuyVolumeOf(fund, price, FloatToInt(round(FloatDiv(fund, price), 0)))
    ELSE volume

Affordable_Always(fund, total_amount) == TRUE

\* if self.available_fund >= total_amount
Affordable(fund, total_amount) == FloatGe(fund, total_amount)

BuyAmount_Requested(filled, price, volume) == Round3(VolumeTimes(volume, price))

\* total_amount = round(volume * price, 3), volume being the volume filled
BuyAmount(filled, price, volume) == Round3(VolumeTimes(filled, price))

\* the keys of a dict after an assignment to the item of key
KeysPut(keys, held, key) == IF key \in DOMAIN held THEN keys ELSE Append(keys, key)

_buy_stock_RecordsFirst(ledger, company_id, price, volume) ==
    LET filled == BuyVolume(ledger.available_fund, price, volume)
        total_amount == BuyAmount(filled, price, volume)
        fulfilled == Affordable(ledger.available_fund, total_amount)
        stock_record ==
            IF company_id \in DOMAIN ledger.portfolios
            THEN [ledger.portfolios[company_id] EXCEPT
                     !.volume = @ + filled, !.buy_price = price, !.price = price]
            ELSE StockRecord(company_id, filled, price, Zero, price)
        counted == [ledger.summaries EXCEPT
                       !.buy.total = @ + 1,
                       !.buy.fulfilled = IF fulfilled THEN @ + 1 ELSE @]
    IN  [fulfilled |-> fulfilled,
         ledger |-> [available_fund |-> IF fulfilled
                                        THEN FloatSub(ledger.available_fund, total_amount)
                                        ELSE ledger.available_fund,
                     portfolios |-> Put(ledger.portfolios, company_id, stock_record),
                     keys |-> KeysPut(ledger.keys, ledger.portfolios, company_id),
                     summaries |-> counted]]

_buy_stock_Replaces(ledger, company_id, price, volume) ==
    LET filled == BuyVolume(ledger.available_fund, price, volume)
        total_amount == BuyAmount(filled, price, volume)
        fulfilled == Affordable(ledger.available_fund, total_amount)
        stock_record == StockRecord(company_id, (IF company_id \in DOMAIN ledger.portfolios
                                     THEN ledger.portfolios[company_id].volume ELSE 0) + filled,
                                    price, Zero, price)
        counted == [ledger.summaries EXCEPT
                       !.buy.total = @ + 1,
                       !.buy.fulfilled = IF fulfilled THEN @ + 1 ELSE @]
    IN  [fulfilled |-> fulfilled,
         ledger |-> IF fulfilled
                    THEN [available_fund |-> FloatSub(ledger.available_fund, total_amount),
                          portfolios |-> Put(ledger.portfolios, company_id, stock_record),
                          keys |-> KeysPut(ledger.keys, ledger.portfolios, company_id),
                          summaries |-> counted]
                    ELSE [ledger EXCEPT !.summaries = counted]]

\* the record of the holding after a buy of filled shares
BoughtRecord(held, company_id, price, filled) ==
    IF company_id \in DOMAIN held
    THEN [held[company_id] EXCEPT !.volume = @ + filled, !.buy_price = price, !.price = price]
    ELSE StockRecord(company_id, filled, price, Zero, price)

\* the buy of filled shares for total_amount, fulfilled or refused
BuySettled(ledger, company_id, price, filled, total_amount, fulfilled) ==
    [fulfilled |-> fulfilled,
     ledger |-> IF fulfilled
                THEN [available_fund |-> FloatSub(ledger.available_fund, total_amount),
                      portfolios |-> Put(ledger.portfolios, company_id,
                                         BoughtRecord(ledger.portfolios, company_id, price,
                                                      filled)),
                      keys |-> KeysPut(ledger.keys, ledger.portfolios, company_id),
                      summaries |-> [ledger.summaries EXCEPT !.buy.total = @ + 1,
                                                             !.buy.fulfilled = @ + 1]]
                ELSE [ledger EXCEPT !.summaries.buy.total = @ + 1]]

BuyPriced(ledger, company_id, price, filled, total_amount) ==
    BuySettled(ledger, company_id, price, filled, total_amount,
               Affordable(ledger.available_fund, total_amount))

BuyFilled(ledger, company_id, price, volume, filled) ==
    BuyPriced(ledger, company_id, price, filled, BuyAmount(filled, price, volume))

_buy_stock(ledger, company_id, price, volume) ==
    BuyFilled(ledger, company_id, price, volume,
              BuyVolume(ledger.available_fund, price, volume))

CanSell_AnyHolding(held, company_id, volume) == company_id \in DOMAIN held

\* stock_record is not None and stock_record.volume >= volume
CanSell(held, company_id, volume) ==
    /\ company_id \in DOMAIN held
    /\ held[company_id].volume >= volume

_sell_stock_Prunes(ledger, company_id, price, volume) ==
    LET fulfilled == CanSell(ledger.portfolios, company_id, volume)
        total_amount == Round3(VolumeTimes(volume, price))
        counted == [ledger.summaries EXCEPT
                       !.sell.total = @ + 1,
                       !.sell.fulfilled = IF fulfilled THEN @ + 1 ELSE @]
        sold == [ledger.portfolios EXCEPT
                    ![company_id].volume = @ - volume,
                    ![company_id].sell_price = price,
                    ![company_id].price = price]
    IN  [fulfilled |-> fulfilled,
         ledger |-> IF fulfilled
                    THEN [available_fund |-> FloatAdd(ledger.available_fund, total_amount),
                          portfolios |-> [k \in {c \in DOMAIN sold : sold[c].volume > 0}
                                             |-> sold[k]],
                          keys |-> SelectSeq(ledger.keys, LAMBDA c : sold[c].volume > 0),
                          summaries |-> counted]
                    ELSE [ledger EXCEPT !.summaries = counted]]

_sell_stock(ledger, company_id, price, volume) ==
    LET fulfilled == CanSell(ledger.portfolios, company_id, volume)
        total_amount == Round3(VolumeTimes(volume, price))
        counted == [ledger.summaries EXCEPT
                       !.sell.total = @ + 1,
                       !.sell.fulfilled = IF fulfilled THEN @ + 1 ELSE @]
    IN  [fulfilled |-> fulfilled,
         ledger |-> IF fulfilled
                    THEN [available_fund |-> FloatAdd(ledger.available_fund, total_amount),
                          portfolios |-> [ledger.portfolios EXCEPT
                                             ![company_id].volume = @ - volume,
                                             ![company_id].sell_price = price,
                                             ![company_id].price = price],
                          keys |-> ledger.keys,
                          summaries |-> counted]
                    ELSE [ledger EXCEPT !.summaries = counted]]

_get_current_price_for_company(prices, company_id, price) ==
    IF company_id \in DOMAIN prices THEN prices[company_id].price ELSE price

\* the loop of _get_total_value over the items of portfolios, total_amount being
\* the sum so far
RECURSIVE HoldingsValue(_, _, _, _)
HoldingsValue(total_amount, held, keys, prices) ==
    IF keys = << >> THEN total_amount
    ELSE LET stock_record == held[Head(keys)]
             current_price == _get_current_price_for_company(prices, Head(keys),
                                                             stock_record.price)
         IN  HoldingsValue(FloatAdd(total_amount,
                                    VolumeTimes(stock_record.volume, current_price)),
                           held, Tail(keys), prices)

_get_total_value(fund, held, keys, prices) ==
    Round2(HoldingsValue(fund, held, keys, prices))

----------------------------------------------------------------------------
(* Orders *)

\* self.info = {} and the record _apply_asx_action fills
EmptyInfo == [empty |-> TRUE, transactions |-> EmptyMap, companies |-> {}]

Transaction(action, price, volume, fulfilled) ==
    [action |-> action, price |-> price, volume |-> volume, fulfilled |-> fulfilled]

TopUpFund_Credits(ledger, volume) ==
    [ledger EXCEPT !.available_fund = FloatAdd(@, FloatOfInt(volume))]

\* elif stock_operation == TOP_UP_FUND: pass
TopUpFund(ledger, volume) == ledger

\* elif stock_operation == WITHDRAW_FUND: pass
WithdrawFund(ledger, volume) == ledger

Tradable_Priced(key, data, prices) == key \in DOMAIN prices

\* (key in self.daily_simulation_data) and (key in self.daily_simulation_prices)
Tradable(key, data, prices) == (key \in DOMAIN data) /\ (key \in DOMAIN prices)

BuyGate_Open(stock_operation, price, ask_price) == stock_operation = BUY_STOCK

\* stock_operation == BUY_STOCK and price >= ask_price
BuyGate(stock_operation, price, ask_price) ==
    stock_operation = BUY_STOCK /\ FloatGe(price, ask_price)

\* stock_operation == SELL_STOCK and price <= bid_price
SellGate(stock_operation, price, bid_price) ==
    stock_operation = SELL_STOCK /\ FloatLe(price, bid_price)

RECURSIVE ApplyFrom_AllEntries(_, _, _, _, _, _, _)
ApplyFrom_AllEntries(action, from, ledger, record, fulfilled, data, prices) ==
    IF from > Len(action.orders) THEN [ledger |-> ledger, info |-> record]
    ELSE
        LET order == action.orders[from]
            key == order.company_id
        IN  IF Tradable(key, data, prices)
            THEN
                LET named == [record EXCEPT !.companies = @ \cup {key}]
                    ask_price == prices[key].ask_price
                    bid_price == prices[key].bid_price
                    current_price == prices[key].price
                IN  IF BuyGate(order.stock_operation, order.price, ask_price)
                    THEN LET r == _buy_stock(ledger, key, ask_price, order.volume)
                         IN  ApplyFrom_AllEntries(action, from + 1, r.ledger,
                                 [named EXCEPT !.transactions = Put(@, key,
                                     Transaction("buy", bid_price, order.volume, r.fulfilled))],
                                 r.fulfilled, data, prices)
                    ELSE IF SellGate(order.stock_operation, order.price, bid_price)
                    THEN LET r == _sell_stock(ledger, key, bid_price, order.volume)
                         IN  ApplyFrom_AllEntries(action, from + 1, r.ledger,
                                 [named EXCEPT !.transactions = Put(@, key,
                                     Transaction("sell", bid_price, order.volume, r.fulfilled))],
                                 r.fulfilled, data, prices)
                    ELSE IF order.stock_operation = TOP_UP_FUND
                    THEN ApplyFrom_AllEntries(action, from + 1, TopUpFund(ledger, order.volume), named,
                                   fulfilled, data, prices)
                    ELSE IF order.stock_operation = WITHDRAW_FUND
                    THEN ApplyFrom_AllEntries(action, from + 1, WithdrawFund(ledger, order.volume), named,
                                   fulfilled, data, prices)
                    ELSE ApplyFrom_AllEntries(action, from + 1, ledger,
                             [named EXCEPT !.transactions = Put(@, key,
                                 Transaction("hold", current_price, -1, fulfilled))],
                             fulfilled, data, prices)
            ELSE ApplyFrom_AllEntries(action, from + 1, ledger, record, fulfilled, data, prices)

\* the orders action.orders[from..company_count] one after another; fulfilled is the
\* local variable of the loop, which an order that reaches no ledger operation leaves
\* as the order before it set it
RECURSIVE ApplyFrom(_, _, _, _, _, _, _)
RECURSIVE ApplyTraded(_, _, _, _, _, _, _, _)
ApplyFrom(action, from, ledger, record, fulfilled, data, prices) ==
    IF from > action.company_count THEN [ledger |-> ledger, info |-> record]
    ELSE
        LET order == action.orders[from]
            key == order.company_id
        IN  IF Tradable(key, data, prices)
            THEN
                LET named == [record EXCEPT !.companies = @ \cup {key}]
                    ask_price == prices[key].ask_price
                    bid_price == prices[key].bid_price
                    current_price == prices[key].price
                IN  IF BuyGate(order.stock_operation, order.price, ask_price)
                    THEN ApplyTraded(action, from, named, "buy", bid_price,
                                     _buy_stock(ledger, key, ask_price, order.volume),
                                     data, prices)
                    ELSE IF SellGate(order.stock_operation, order.price, bid_price)
                    THEN ApplyTraded(action, from, named, "sell", bid_price,
                                     _sell_stock(ledger, key, bid_price, order.volume),
                                     data, prices)
                    ELSE IF order.stock_operation = TOP_UP_FUND
                    THEN ApplyFrom(action, from + 1, TopUpFund(ledger, order.volume), named,
                                   fulfilled, data, prices)
                    ELSE IF order.stock_operation = WITHDRAW_FUND
                    THEN ApplyFrom(action, from + 1, WithdrawFund(ledger, order.volume), named,
                                   fulfilled, data, prices)
                    ELSE ApplyFrom(action, from + 1, ledger,
                             [named EXCEPT !.transactions = Put(@, key,
                                 Transaction("hold", current_price, -1, fulfilled))],
                             fulfilled, data, prices)
            ELSE ApplyFrom(action, from + 1, ledger, record, fulfilled, data, prices)

\* the loop after _buy_stock or _sell_stock returned r for the order from: the
\* transaction is recorded, at the bid price for both
ApplyTraded(action, from, named, name, bid_price, r, data, prices) ==
    ApplyFrom(action, from + 1, r.ledger,
              [named EXCEPT !.transactions =
                  Put(@, action.orders[from].company_id,
                      Transaction(name, bid_price, action.orders[from].volume, r.fulfilled))],
              r.fulfilled, data, prices)

\* what _apply_asx_action leaves: the ledger and self.info of the loop, and end_batch
Applied(applied, end_batch) ==
    [ledger |-> applied.ledger, info |-> applied.info, end_batch |-> end_batch]

_apply_asx_action(ledger, data, prices, action) ==
    Applied(ApplyFrom(action, 1, ledger,
                      [empty |-> FALSE, transactions |-> EmptyMap, companies |-> {}],
                      FALSE, data, prices),
            action.end_batch)

----------------------------------------------------------------------------
(* Episode *)

\* the step after which the day rolls over: step_minute_count > 24
TicksPerDay == 24

\* _get_current_display_date: the date of row min_stock_seq + step_day_count of
\* index_df, or None when the table has no such row
_get_current_display_date(seq, day_count) ==
    IF seq + day_count < NumIndexRows THEN seq + day_count ELSE NoDate

\* "if display_date:"
DateIsTrue(date) == date # NoDate /\ date # EmptyDate

\* round(self.initial_fund * ratio, 3)
FundRatio(ratio) == Round3(FloatMul(initial_fund, ratio))

min_lost == FundRatio(expected_fund_decrease_ratio)
max_gain == FundRatio(expected_fund_increase_ratio)

_is_done(today, day_count, value) ==
    \/ today = NoDate
    \/ day_count >= max_transaction_days - 1
    \/ FloatLt(value, min_lost)
    \/ FloatGt(value, max_gain)

\* _get_asx_prices: every simulation gives its current prices and moves on
_get_asx_prices(data, prices) ==
    [daily_simulation_data |-> [k \in DOMAIN data |-> get_next_prices(data[k]).sim],
     daily_simulation_prices |->
        [k \in (DOMAIN prices) \cup (DOMAIN data) |->
            IF k \in DOMAIN data THEN get_next_prices(data[k]).prices ELSE prices[k]]]

\* the observation _get_current_obs builds, without the arrays of prices and holdings
Observation(bank, value, fund, day_count, minute_count, data, held) ==
    [bank_balance |-> bank, total_value |-> value, available_fund |-> fund,
     day |-> day_count, second |-> minute_count * 15 * 60 + 10 * 3600,
     company_count |-> Cardinality(DOMAIN data),
     portfolio_company_count |-> Cardinality(DOMAIN held)]

NoObservation == [none |-> TRUE]

\* what a call returns: kind is "obs" (reset: the observation; step: the tuple
\* observation, reward, done, info), "sentinel" (the tuple None, 0, True, {}),
\* "None" (step ends without a return statement) or the exception raised
Returned(call, kind, obs, r, done, i) ==
    [call |-> call, kind |-> kind, obs |-> obs, reward |-> r, done |-> done, info |-> i]

----------------------------------------------------------------------------
(* Inputs and bounds *)

MaxEpisodes == 2        \* calls of reset in a run
MaxOrders == 2          \* length of the arrays of an action
MaxTrades == 3          \* buy and sell orders that reach the ledger in an episode
MaxVolume == 3          \* largest volume of an order
MaxTradeSteps == 2      \* calls of step in a run that carry orders

max_stock_price == FloatOfInt(100000)

Order(company_id, stock_operation, price, volume) ==
    [company_id |-> company_id, stock_operation |-> stock_operation,
     price |-> price, volume |-> volume]

\* the single orders: buy and sell orders whose limit price lets them through, some
\* whose limit price stops them, some at a limit price that some ticks of company 1 let
\* through, and the others
Orders ==
    {Order(1, BUY_STOCK, max_stock_price, v) : v \in {0, MaxVolume}}
    \cup {Order(2, BUY_STOCK, max_stock_price, MaxVolume)}
    \cup {Order(c, SELL_STOCK, Zero, MaxVolume) : c \in {1, 2}}
    \cup {Order(1, BUY_STOCK, Zero, 0), Order(1, SELL_STOCK, max_stock_price, 0)}
    \cup {Order(1, BUY_STOCK, Amount((7 * Dollar) \div 2), 0),
          Order(1, SELL_STOCK, Amount((7 * Dollar) \div 2), 0)}
    \cup {Order(1, HOLD_STOCK, Zero, 0), Order(1, TOP_UP_FUND, Zero, MaxVolume),
          Order(1, WITHDRAW_FUND, Zero, MaxVolume),
          Order(3, BUY_STOCK, max_stock_price, MaxVolume),
          Order(4, SELL_STOCK, Zero, 0)}

\* the batches of two orders: a first order and a second one
FirstOrders ==
    {Order(2, BUY_STOCK, max_stock_price, MaxVolume),
     Order(2, SELL_STOCK, Zero, MaxVolume)}

SecondOrders ==
    {Order(2, BUY_STOCK, max_stock_price, MaxVolume),
     Order(2, SELL_STOCK, Zero, MaxVolume),
     Order(1, HOLD_STOCK, Zero, 0)}

\* what the arrays hold beyond company_count
PadOrder == Order(1, BUY_STOCK, max_stock_price, 0)

\* an action: the arrays hold the orders batch, then padding
Action(batch, end_batch) ==
    [company_count |-> Len(batch),
     orders |-> [i \in 1..MaxOrders |-> IF i <= Len(batch) THEN batch[i] ELSE PadOrder],
     end_batch |-> end_batch]

OrderActions ==
    {Action(<< >>, e) : e \in BOOLEAN}
    \cup {Action(<< o >>, FALSE) : o \in Orders}
    \cup {Action(<< o >>, TRUE) :
              o \in {Order(2, BUY_STOCK, max_stock_price, MaxVolume), Order(1, HOLD_STOCK, Zero, 0)}}
    \cup {Action(<< o, p >>, FALSE) : o \in FirstOrders, p \in SecondOrders}

\* the actions of the steps that follow the end of an episode: one sell order, or none
LateActions ==
    {Action(<< Order(2, SELL_STOCK, Zero, MaxVolume) >>, FALSE), Action(<< >>, TRUE)}

\* The actions a step is called with.  The first MaxTradeSteps calls of step carry
\* orders, and so can the call that follows the step that ended the episode.  Other calls
\* carry none: in an episode no order of which reached the ledger they leave
\* end_batch clear, so that its days run their full length; in the others they set
\* it, so that the day ends at once.
Actions ==
    IF global_step_count < MaxTradeSteps THEN OrderActions
    ELSE IF ret.call = "step" /\ ret.kind = "sentinel" THEN LateActions
    ELSE IF summaries.buy.total + summaries.sell.total = 0 THEN {Action(<< >>, FALSE)}
    ELSE {Action(<< >>, TRUE)}

\* the seeds seed() is called with
Seeds == {0, 1}

\* the state of a generator that seed() seeded with no seed: from the entropy of the
\* system, as the last line of the constructor does
Entropy == -2

\* the state of a generator that has drawn since it was seeded
Drawn == -1

\* no episode begun on a freshly seeded generator is at its start
NoDraw == [seed |-> Drawn, seq |-> -1, selected |-> EmptyMap]

----------------------------------------------------------------------------
(* State machine *)

Ledger == [available_fund |-> available_fund, portfolios |-> portfolios,
           keys |-> portfolio_keys, summaries |-> summaries]

\* the state after construction, with fund as the cash of the ledger
InitWith(fund) ==
    /\ episode = 0
    /\ global_step_count = 0
    /\ step_day_count = 0
    /\ step_minute_count = 0
    /\ need_move_day_forward = FALSE
    /\ min_stock_seq = 0
    /\ display_date = EmptyDate
    /\ available_fund = fund
    /\ previous_total_fund = fund
    /\ bank_balance = initial_bank_balance
    /\ portfolios = EmptyMap
    /\ portfolio_keys = << >>
    /\ total_value = Zero
    /\ reward = Zero
    /\ summaries = [buy |-> [total |-> 0, fulfilled |-> 0],
                    sell |-> [total |-> 0, fulfilled |-> 0]]
    /\ info = EmptyInfo
    /\ self_action = [company_count |-> -1, orders |-> << >>, end_batch |-> FALSE]    \* self.action = None
    /\ daily_simulation_data = EmptyMap
    /\ daily_simulation_prices = EmptyMap
    /\ cached_simulation_records = EmptyMap
    /\ total_value_history_file = FALSE
    /\ ret = Returned("init", "None", NoObservation, Zero, FALSE, EmptyInfo)
    /\ np_random = Entropy
    /\ seeded_draw = NoDraw
    /\ first_reward_pending = TRUE
    /\ plain_steps = 0

Init == InitWith(initial_fund)

\* seed(seed): a new generator for self.np_random.  (Called before the first step of
\* the run, and followed by reset: see Next.)
seed(s) ==
    /\ np_random # s
    /\ ret.call \in {"init", "reset"}
    /\ global_step_count = 0
    /\ np_random' = s
    /\ UNCHANGED << episode, global_step_count, step_day_count, step_minute_count,
                    need_move_day_forward, min_stock_seq, display_date, available_fund,
                    previous_total_fund, bank_balance, portfolios, portfolio_keys,
                    total_value, reward, summaries, info, self_action,
                    daily_simulation_data, daily_simulation_prices,
                    cached_simulation_records, total_value_history_file, ret, seeded_draw,
                    first_reward_pending, plain_steps >>

reset_KeepsPortfolio(seq, choices) ==
    LET date == _get_current_display_date(seq, 0)
        generated == _generate_daily_simulation_price_for_companies(date, choices)
        shown == _get_asx_prices(generated.daily_simulation_data, daily_simulation_prices)
        obs == Observation(initial_bank_balance, total_value, initial_fund, 0, 0,
                           generated.daily_simulation_data, EmptyMap)
    IN  /\ episode < MaxEpisodes
        /\ episode' = episode + 1
        /\ step_day_count' = 0
        /\ step_minute_count' = 0
        /\ available_fund' = initial_fund
        /\ previous_total_fund' = initial_fund
        /\ bank_balance' = initial_bank_balance
        /\ portfolios' = portfolios
        /\ portfolio_keys' = portfolio_keys
        /\ need_move_day_forward' = FALSE
        /\ total_value_history_file' = TRUE
        /\ min_stock_seq' = seq
        /\ display_date' = date
        /\ cached_simulation_records' = generated.cached_simulation_records
        /\ np_random' = Drawn
        /\ first_reward_pending' = TRUE
        /\ IF generated.raised
           THEN \* the exception leaves reset: no prices are read, no summary is reset
                /\ daily_simulation_data' = generated.daily_simulation_data
                /\ ret' = Returned("reset", "ZeroDivisionError", NoObservation, Zero, FALSE,
                                   EmptyInfo)
                /\ seeded_draw' = NoDraw
                /\ plain_steps' = -1
                /\ UNCHANGED << daily_simulation_prices, summaries >>
           ELSE /\ daily_simulation_data' = shown.daily_simulation_data
                /\ daily_simulation_prices' = shown.daily_simulation_prices
                /\ summaries' = [buy |-> [total |-> 0, fulfilled |-> 0],
                                 sell |-> [total |-> 0,
                                           fulfilled |-> summaries.sell.fulfilled]]
                /\ ret' = Returned("reset", "obs", obs, Zero, FALSE, EmptyInfo)
                /\ seeded_draw' = IF np_random \in Seeds
                                  THEN [seed |-> np_random, seq |-> seq, selected |-> choices]
                                  ELSE NoDraw
                /\ plain_steps' = 0
        /\ UNCHANGED << global_step_count, total_value, reward, info, self_action >>

\* reset(): seq is the row of the start date drawn, choices what the shuffles select
reset(seq, choices) ==
    \E date \in {_get_current_display_date(seq, 0)} :
    \E generated \in {_generate_daily_simulation_price_for_companies(date, choices)} :
    \E shown \in {_get_asx_prices(generated.daily_simulation_data, daily_simulation_prices)} :
        /\ episode < MaxEpisodes
        /\ episode' = episode + 1
        /\ step_day_count' = 0
        /\ step_minute_count' = 0
        /\ available_fund' = initial_fund
        /\ previous_total_fund' = initial_fund
        /\ bank_balance' = initial_bank_balance
        /\ portfolios' = EmptyMap
        /\ portfolio_keys' = << >>
        /\ need_move_day_forward' = FALSE
        /\ total_value_history_file' = TRUE
        /\ min_stock_seq' = seq
        /\ display_date' = date
        /\ cached_simulation_records' = generated.cached_simulation_records
        /\ np_random' = Drawn
        /\ first_reward_pending' = TRUE
        /\ IF generated.raised
           THEN \* the exception leaves reset: no prices are read, no summary is reset
                /\ daily_simulation_data' = generated.daily_simulation_data
                /\ ret' = Returned("reset", "ZeroDivisionError", NoObservation, Zero, FALSE,
                                   EmptyInfo)
                /\ seeded_draw' = NoDraw
                /\ plain_steps' = -1
                /\ UNCHANGED << daily_simulation_prices, summaries >>
           ELSE /\ daily_simulation_data' = shown.daily_simulation_data
                /\ daily_simulation_prices' = shown.daily_simulation_prices
                /\ summaries' = [buy |-> [total |-> 0, fulfilled |-> 0],
                                 sell |-> [total |-> 0,
                                           fulfilled |-> summaries.sell.fulfilled]]
                /\ ret' = Returned("reset", "obs",
                                   Observation(initial_bank_balance, total_value,
                                               initial_fund, 0, 0,
                                               generated.daily_simulation_data, EmptyMap),
                                   Zero, FALSE, EmptyInfo)
                /\ seeded_draw' = IF np_random \in Seeds
                                  THEN [seed |-> np_random, seq |-> seq, selected |-> choices]
                                  ELSE NoDraw
                /\ plain_steps' = 0
        /\ UNCHANGED << global_step_count, total_value, reward, info, self_action >>

\* what _move_day_forward leaves when the generation left generated.  When the
\* generation raises, the call ends before it clears need_move_day_forward
Moved(generated) ==
    [step_day_count |-> step_day_count + 1,
     step_minute_count |-> 0,
     daily_simulation_data |-> generated.daily_simulation_data,
     cached_simulation_records |-> generated.cached_simulation_records,
     need_move_day_forward |-> generated.raised,
     raised |-> generated.raised]

\* _move_day_forward: the rollover; date is self.display_date
_move_day_forward(date, choices) ==
    Moved(IF DateIsTrue(date)
          THEN _generate_daily_simulation_price_for_companies(date, choices)
          ELSE [daily_simulation_data |-> daily_simulation_data,
                cached_simulation_records |-> cached_simulation_records,
                raised |-> FALSE])

\* the step from the rollover on, moved being what the rollover left
Started(date, moved) ==
    [display_date |-> date,
     moved |-> need_move_day_forward,
     step_day_count |-> moved.step_day_count,
     step_minute_count |-> moved.step_minute_count,
     daily_simulation_data |-> moved.daily_simulation_data,
     cached_simulation_records |-> moved.cached_simulation_records,
     need_move_day_forward |-> moved.need_move_day_forward,
     raised |-> moved.raised]

\* the date of the day a step starts in
StepDate == _get_current_display_date(min_stock_seq, step_day_count)

\* the first lines of step(), up to the assertion: the date of the day the step starts
\* in, then the rollover the step before asked for
StepStart(choices) ==
    Started(StepDate,
            IF need_move_day_forward
            THEN _move_day_forward(StepDate, choices)
            ELSE [step_day_count |-> step_day_count,
                  step_minute_count |-> step_minute_count,
                  daily_simulation_data |-> daily_simulation_data,
                  cached_simulation_records |-> cached_simulation_records,
                  need_move_day_forward |-> FALSE,
                  raised |-> FALSE])

\* the choices a step draws: those of the date it regenerates the simulations of
StepChoices ==
    IF need_move_day_forward /\ DateIsTrue(StepDate) THEN ChoicesOfDate(StepDate) ELSE {EmptyMap}

\* a step that the exception of the rollover ends: self.info = {} and the rollover as
\* far as it came, nothing else
RolloverRaised(start) ==
    /\ display_date' = start.display_date
    /\ step_day_count' = start.step_day_count
    /\ step_minute_count' = start.step_minute_count
    /\ daily_simulation_data' = start.daily_simulation_data
    /\ cached_simulation_records' = start.cached_simulation_records
    /\ need_move_day_forward' = start.need_move_day_forward
    /\ info' = EmptyInfo
    /\ ret' = Returned("step", "ZeroDivisionError", NoObservation, Zero, FALSE, EmptyInfo)
    /\ plain_steps' = -1
    /\ seeded_draw' = NoDraw
    /\ UNCHANGED << episode, global_step_count, min_stock_seq, available_fund, np_random,
                    previous_total_fund, bank_balance, portfolios, portfolio_keys,
                    total_value, reward, summaries, daily_simulation_prices, self_action,
                    total_value_history_file, first_reward_pending >>

_calculate_reward_KeepsPrevious(fund, held, keys, prices, previous) ==
    LET total_fund == _get_total_value(fund, held, keys, prices)
    IN  [total_value |-> total_fund, previous_total_fund |-> previous,
         reward |-> FloatSub(total_fund, previous)]

\* reward = total_fund - self.previous_total_fund, then previous_total_fund = total_fund
Rewarded(total_fund, previous) ==
    [total_value |-> total_fund, previous_total_fund |-> total_fund,
     reward |-> FloatSub(total_fund, previous)]

_calculate_reward(fund, held, keys, prices, previous) ==
    Rewarded(_get_total_value(fund, held, keys, prices), previous)

\* step(action) from the assertion on, for an action of the action space.  (Every value
\* a step computes is bound once, as the one element of a set.)
StepApplied(action, start) ==
    \E applied \in {_apply_asx_action(Ledger, start.daily_simulation_data,
                                      daily_simulation_prices, action)} :
    \E rewarded \in {_calculate_reward(applied.ledger.available_fund,
                                       applied.ledger.portfolios, applied.ledger.keys,
                                       daily_simulation_prices, previous_total_fund)} :
    \E done \in {_is_done(start.display_date, start.step_day_count, rewarded.total_value)} :
    \E shown \in {_get_asx_prices(start.daily_simulation_data, daily_simulation_prices)} :
    LET has_row == min_stock_seq + start.step_day_count < NumIndexRows
        obs == Observation(bank_balance, rewarded.total_value,
                           applied.ledger.available_fund, start.step_day_count,
                           start.step_minute_count, start.daily_simulation_data,
                           applied.ledger.portfolios)
    IN  /\ applied.ledger.summaries.buy.total + applied.ledger.summaries.sell.total
               <= MaxTrades
        /\ global_step_count' = Min(global_step_count + 1, MaxTradeSteps)
        /\ display_date' = start.display_date
        /\ step_day_count' = start.step_day_count
        /\ cached_simulation_records' = start.cached_simulation_records
        /\ info' = applied.info
        /\ self_action' = action
        /\ available_fund' = applied.ledger.available_fund
        /\ portfolios' = applied.ledger.portfolios
        /\ portfolio_keys' = applied.ledger.keys
        /\ summaries' = applied.ledger.summaries
        /\ total_value' = rewarded.total_value
        /\ previous_total_fund' = rewarded.previous_total_fund
        /\ reward' = rewarded.reward
        /\ first_reward_pending' = FALSE
        /\ seeded_draw' = NoDraw
        /\ IF done
           THEN \* return None, 0, True, {} if the history file is open, else no return
                /\ total_value_history_file' = FALSE
                /\ ret' = IF total_value_history_file
                          THEN Returned("step", "sentinel", NoObservation, Zero, TRUE, EmptyInfo)
                          ELSE Returned("step", "None", NoObservation, Zero, FALSE, EmptyInfo)
                /\ daily_simulation_data' = start.daily_simulation_data
                /\ step_minute_count' = start.step_minute_count
                /\ need_move_day_forward' = FALSE
                /\ plain_steps' = -1
                /\ UNCHANGED daily_simulation_prices
           ELSE \* _get_current_obs: the prices move on, then the row of the day is read
                /\ daily_simulation_data' = shown.daily_simulation_data
                /\ daily_simulation_prices' = shown.daily_simulation_prices
                /\ UNCHANGED total_value_history_file
                /\ IF has_row
                   THEN /\ ret' = Returned("step", "obs", obs, rewarded.reward, FALSE,
                                           applied.info)
                        /\ step_minute_count' = start.step_minute_count + 1
                        /\ need_move_day_forward' =
                               ((start.step_minute_count + 1 > TicksPerDay)
                                    \/ applied.end_batch)
                        /\ plain_steps' =
                               IF plain_steps = -1 \/ applied.end_batch THEN -1
                               ELSE IF start.moved THEN 0 ELSE plain_steps + 1
                   ELSE /\ ret' = Returned("step", "IndexError", NoObservation, Zero, FALSE,
                                           EmptyInfo)
                        /\ step_minute_count' = start.step_minute_count
                        /\ need_move_day_forward' = FALSE
                        /\ plain_steps' = -1
        /\ UNCHANGED << episode, min_stock_seq, bank_balance, np_random >>

\* step(action) for an action of the action space
step(action, choices) ==
    \E start \in {StepStart(choices)} :
        /\ episode >= 1
        /\ IF start.raised THEN RolloverRaised(start) ELSE StepApplied(action, start)

\* the assertion fails: self.info = {} and the rollover, nothing else
AssertionRaised(start) ==
    /\ display_date' = start.display_date
    /\ step_day_count' = start.step_day_count
    /\ step_minute_count' = start.step_minute_count
    /\ daily_simulation_data' = start.daily_simulation_data
    /\ cached_simulation_records' = start.cached_simulation_records
    /\ need_move_day_forward' = FALSE
    /\ info' = EmptyInfo
    /\ ret' = Returned("step", "AssertionError", NoObservation, Zero, FALSE, EmptyInfo)
    /\ plain_steps' = -1
    /\ seeded_draw' = NoDraw
    /\ UNCHANGED << episode, global_step_count, min_stock_seq, available_fund, np_random,
                    previous_total_fund, bank_balance, portfolios, portfolio_keys,
                    total_value, reward, summaries, daily_simulation_prices, self_action,
                    total_value_history_file, first_reward_pending >>

\* step(action) for an action the action space does not contain
step_invalid(choices) ==
    \E start \in {StepStart(choices)} :
        /\ episode >= 1
        /\ IF start.raised THEN RolloverRaised(start) ELSE AssertionRaised(start)

Next ==
    \/ \E seq \in 0..(NumIndexRows - 1) : \E choices \in ChoicesOfDate(seq) : reset(seq, choices)
    \/ np_random = Drawn /\ \E action \in Actions : \E choices \in StepChoices :
            step(action, choices)
    \/ np_random = Drawn /\ \E choices \in StepChoices : step_invalid(choices)
    \/ \E s \in Seeds : seed(s)

Spec == Init /\ [][Next]_vars

----------------------------------------------------------------------------
(* _buy_stock on its own: a buy of all the cash affords, for every cash    *)
(* and every price of a grid                                               *)

MaxBuyAllFund == 200    \* largest cash of the ledger, in thousandths of a dollar
MaxBuyAllPrice == 40    \* largest ask price, in units

\* the ask prices: the multiples of 0.0001
BuyAllPrices == {Amount(k) : k \in 1..MaxBuyAllPrice}

\* the cash the ledger starts with (initial_fund): the multiples of 0.001
InitBuyAll == \E k \in 0..MaxBuyAllFund : InitWith(Amount(k * Milli))

\* self._buy_stock(company_id, price, 0) on a ledger that holds nothing
buy_all(company_id, price) ==
    /\ summaries.buy.total = 0
    /\ \E r \in {_buy_stock(Ledger, company_id, price, 0)} :
        /\ available_fund' = r.ledger.available_fund
        /\ portfolios' = r.ledger.portfolios
        /\ portfolio_keys' = r.ledger.keys
        /\ summaries' = r.ledger.summaries
        /\ UNCHANGED << episode, global_step_count, step_day_count, step_minute_count,
                        need_move_day_forward, min_stock_seq, display_date,
                        previous_total_fund, bank_balance, total_value, reward, info,
                        self_action, daily_simulation_data, daily_simulation_prices,
                        cached_simulation_records, total_value_history_file, ret,
                        np_random, seeded_draw, first_reward_pending, plain_steps >>

NextBuyAll == \E price \in BuyAllPrices : buy_all(1, price)

SpecBuyAll == InitBuyAll /\ [][NextBuyAll]_vars

----------------------------------------------------------------------------
(* _generate_daily_simulation_price_for_company on its own: the simulation *)
(* of one price bar, for every bar of a grid                               *)

MaxBarPrice == 20       \* largest high price of a bar, in quarters of a dollar

\* the bars (high, low) with low <= high; a bar opens at its low and closes at its high
Bars ==
    {[high_price |-> Amount(b[1] * (Dollar \div 4)), low_price |-> Amount(b[2] * (Dollar \div 4))] :
         b \in {c \in (0..MaxBarPrice) \X (0..MaxBarPrice) : c[2] <= c[1]}}

\* what the shuffles can select for a bar
ChoicesOfBar(bar) ==
    LET of == TemplateChoices(TemplatesOfRatio(normalized_price(bar.high_price,
                                                                bar.low_price)))
    IN  IF of = {} THEN {NoChoice} ELSE of

\* self._generate_daily_simulation_price_for_company(company_id, low, high, high, low):
\* the simulation it returns is kept in daily_simulation_data, ticks or none; when it
\* raises there is none to keep
synthesize(company_id, bar, choice) ==
    /\ ret.call = "init"
    /\ \E g \in {_generate_daily_simulation_price_for_company(
                  cached_simulation_records, company_id, bar.low_price, bar.high_price,
                  bar.high_price, bar.low_price, choice)} :
        /\ daily_simulation_data' =
               IF g.raised THEN EmptyMap ELSE Put(EmptyMap, company_id, g.simulations)
        /\ cached_simulation_records' = g.cache
        /\ ret' = Returned("_generate_daily_simulation_price_for_company",
                           IF g.raised THEN "ZeroDivisionError" ELSE "simulations",
                           NoObservation, Zero, FALSE, EmptyInfo)
        /\ UNCHANGED << episode, global_step_count, step_day_count, step_minute_count,
                        need_move_day_forward, min_stock_seq, display_date,
                        available_fund, previous_total_fund, bank_balance, portfolios,
                        portfolio_keys, total_value, reward, summaries, info, self_action,
                        daily_simulation_prices, total_value_history_file,
                        np_random, seeded_draw, first_reward_pending, plain_steps >>

NextSynthesize ==
    \E bar \in Bars : \E choice \in ChoicesOfBar(bar) : synthesize(1, bar, choice)

SpecSynthesize == Init /\ [][NextSynthesize]_vars

----------------------------------------------------------------------------
(* Properties *)

\* a transition made by a call of step that got past the rollover and the assertion on
\* the action
StepTaken == ret'.call = "step" /\ ret'.kind \notin {"AssertionError", "ZeroDivisionError"}

\* a step in which exactly one buy order and no sell order reached the ledger
OneBuyOnly ==
    /\ StepTaken
    /\ summaries'.buy.total = summaries.buy.total + 1
    /\ summaries'.sell = summaries.sell

\* a step in which exactly one sell order and no buy order reached the ledger
OneSellOnly ==
    /\ StepTaken
    /\ summaries'.sell.total = summaries.sell.total + 1
    /\ summaries'.buy = summaries.buy

\* the volume of company k held, 0 without a holding
Held(held, k) == IF k \in DOMAIN held THEN held[k].volume ELSE 0

\* every holding but that of company k is the same after the step as before it
OthersUnchanged(k) ==
    /\ (DOMAIN portfolios') \ {k} = (DOMAIN portfolios) \ {k}
    /\ \A j \in (DOMAIN portfolios) \ {k} : portfolios'[j] = portfolios[j]

\* C1: in every reachable state of an episode available_fund is >= 0.
C1_FundNeverNegative == FloatGe(available_fund, Zero)

\* a buy was fulfilled and another one refused for lack of cash
C1_Witness ==
    /\ summaries.buy.fulfilled > 0
    /\ summaries.buy.total > summaries.buy.fulfilled
    /\ FloatLt(available_fund, initial_fund)

\* C2: in every state right after reset or a step, the total_value held and reported in
\* the observation equals available_fund plus the sum over the holdings of volume times
\* the current price of the company, on the ledger and the prices of that same state.
C2_TotalValueIsLedgerValue ==
    ret.kind = "obs" =>
        /\ total_value = HoldingsValue(available_fund, portfolios, portfolio_keys,
                                       daily_simulation_prices)
        /\ ret.obs.total_value = total_value

\* C3: a buy is fulfilled only if available_fund before it is >= round(volume * ask, 3)
\* for the volume filled; available_fund then decreases by exactly that amount and the
\* holding of the company increases by exactly that volume (the volume asked for, when
\* one is asked for).
C3_BuyIsPaidFor ==
    [][(OneBuyOnly /\ summaries'.buy.fulfilled = summaries.buy.fulfilled + 1) =>
        \E k \in (DOMAIN portfolios') \cap (DOMAIN daily_simulation_prices) :
            LET ask == daily_simulation_prices[k].ask_price
                filled == portfolios'[k].volume - Held(portfolios, k)
                amount == Round3(VolumeTimes(filled, ask))
            IN  /\ filled >= 0
                /\ portfolios'[k].buy_price = ask
                /\ FloatGe(available_fund, amount)
                /\ available_fund' = FloatSub(available_fund, amount)
                /\ (k \in DOMAIN info'.transactions
                        /\ info'.transactions[k].action = "buy"
                        /\ info'.transactions[k].volume > 0)
                    => filled = info'.transactions[k].volume
                /\ OthersUnchanged(k)]_vars

\* a fulfilled buy whose volume times price is not a whole number of thousandths
C3_Witness ==
    /\ ret.call = "step"
    /\ \E k \in (DOMAIN portfolios) \cap (DOMAIN info.transactions) :
        /\ info.transactions[k].action = "buy"
        /\ info.transactions[k].fulfilled
        /\ portfolios[k].volume > 0
        /\ Round3(VolumeTimes(portfolios[k].volume, portfolios[k].buy_price))
               # VolumeTimes(portfolios[k].volume, portfolios[k].buy_price)

\* C4: a sell is fulfilled only if the company is held with volume >= the volume asked
\* for; otherwise it is refused without a partial fill: available_fund and every holding
\* are unchanged, only the count of sell orders changes.
C4_SellNeedsHolding ==
    [][OneSellOnly =>
        IF summaries'.sell.fulfilled = summaries.sell.fulfilled + 1
        THEN \E k \in DOMAIN portfolios :
                LET sold == portfolios[k].volume - portfolios'[k].volume
                IN  /\ sold >= 0
                    /\ portfolios[k].volume >= sold
                    /\ (k \in DOMAIN info'.transactions
                            /\ info'.transactions[k].action = "sell")
                        => sold = info'.transactions[k].volume
                    /\ OthersUnchanged(k)
        ELSE /\ summaries'.sell.fulfilled = summaries.sell.fulfilled
             /\ available_fund' = available_fund
             /\ portfolios' = portfolios
             /\ \A k \in DOMAIN info'.transactions :
                    info'.transactions[k].action = "sell" =>
                        /\ ~info'.transactions[k].fulfilled
                        /\ Held(portfolios, k) < info'.transactions[k].volume
                              \/ k \notin DOMAIN portfolios]_vars

\* a sell refused although part of the volume asked for is held
C4_Witness ==
    /\ ret.call = "step"
    /\ \E k \in (DOMAIN portfolios) \cap (DOMAIN info.transactions) :
        /\ info.transactions[k].action = "sell"
        /\ ~info.transactions[k].fulfilled
        /\ portfolios[k].volume > 0
        /\ portfolios[k].volume < info.transactions[k].volume

\* C5: in every reachable state every holding has volume >= 0.
C5_VolumesNeverNegative == \A k \in DOMAIN portfolios : portfolios[k].volume >= 0

\* a holding sold down to volume 0, and a sell refused in the same episode
C5_Witness ==
    /\ summaries.sell.total > 0
    /\ \E k \in DOMAIN portfolios :
            portfolios[k].volume = 0 /\ FloatGt(portfolios[k].sell_price, Zero)
    /\ \E k \in DOMAIN info.transactions :
            info.transactions[k].action = "sell" /\ ~info.transactions[k].fulfilled

\* C6: a buy that cannot be afforded is reported with fulfilled = false in the info
\* record of the step and changes nothing in the ledger but the count of buy orders.
C6_RefusedBuyChangesNothing ==
    [][(OneBuyOnly /\ summaries'.buy.fulfilled = summaries.buy.fulfilled) =>
        /\ available_fund' = available_fund
        /\ portfolios' = portfolios
        /\ ~info'.empty
        /\ \A k \in DOMAIN info'.transactions :
                info'.transactions[k].action = "buy" => ~info'.transactions[k].fulfilled
        /\ \E k \in DOMAIN info'.transactions : info'.transactions[k].action = "buy"]_vars

\* a buy refused for lack of cash
C6_Witness ==
    /\ ret.call = "step"
    /\ \E k \in DOMAIN info.transactions :
        /\ info.transactions[k].action = "buy"
        /\ ~info.transactions[k].fulfilled
        /\ FloatGt(VolumeTimes(info.transactions[k].volume,
                               daily_simulation_prices[k].ask_price), available_fund)

\* C7: the reward a step computes is the total value computed after its whole batch
\* minus the total value the step before it computed in the same episode (initial_fund
\* for the first step after reset), neither clipped nor made positive.
C7_RewardIsChangeOfTotal ==
    [][StepTaken =>
        /\ total_value' = _get_total_value(available_fund', portfolios', portfolio_keys',
                                           daily_simulation_prices)
        /\ reward' = FloatSub(total_value',
                              IF first_reward_pending THEN initial_fund ELSE total_value)
        /\ ret'.kind = "obs" => ret'.reward = reward']_vars

\* a step returned a negative reward
C7_Witness == ret.call = "step" /\ ret.kind = "obs" /\ FloatLt(ret.reward, Zero)

\* the termination condition as the step would find it on the day the episode is on
TerminationHolds ==
    \/ ~DateIsTrue(_get_current_display_date(min_stock_seq, step_day_count))
    \/ step_day_count >= max_transaction_days - 1
    \/ FloatLt(total_value, min_lost)
    \/ FloatGt(total_value, max_gain)

\* the last call was a step that got past the rollover and the assertion on the action
StepReturned == ret.call = "step" /\ ret.kind \notin {"AssertionError", "ZeroDivisionError"}

\* C8: a step ends the episode exactly when, after its reward computation, the current
\* day has no index data, or day_index >= max_transaction_days - 1, or total_value is
\* below initial_fund * decrease_ratio or above initial_fund * increase_ratio.
C8_DoneExactlyOnTermination ==
    StepReturned => (ret.kind \in {"sentinel", "None"} <=> TerminationHolds)

\* C9: every call of step on which the termination condition holds returns the sentinel:
\* no observation, reward 0, done = true and an empty info map.
C9_TerminationReturnsSentinel ==
    (StepReturned /\ _is_done(display_date, step_day_count, total_value)) =>
        /\ ret.kind = "sentinel"
        /\ ret.obs = NoObservation
        /\ ret.reward = Zero
        /\ ret.done
        /\ ret.info = EmptyInfo

\* C10: with no end_batch and no termination, the first 24 steps after a reset or after
\* a rollover perform no rollover and the 25th performs exactly one: day_index increases
\* by one and the tick counter is reset to 0.
C10_RolloverOnStep25 ==
    [][(ret'.call = "step" /\ plain_steps >= 0 /\ plain_steps' >= 0) =>
        IF plain_steps = TicksPerDay
        THEN step_day_count' = step_day_count + 1 /\ step_minute_count' = 1
        ELSE step_day_count' = step_day_count
                /\ step_minute_count' = step_minute_count + 1]_vars

\* a step whose batch holds one order: the order
OneOrder == self_action'.orders[1]

\* a step that got past the assertion with a batch of exactly one order
OneOrderStep == StepTaken /\ self_action'.company_count = 1

\* C11: a buy order reaches the ledger only if its limit price >= the current ask price
\* of the company and then executes at the ask price; a sell order only if its limit
\* price <= the current bid price and then executes at the bid price; the limit price
\* is never the price at which cash and holdings are changed.
C11_LimitPriceIsOnlyAGate ==
    [][OneOrderStep =>
        LET k == OneOrder.company_id
            quoted == k \in DOMAIN daily_simulation_prices
            ask == daily_simulation_prices[k].ask_price
            bid == daily_simulation_prices[k].bid_price
        IN  /\ summaries'.buy.total # summaries.buy.total =>
                /\ OneOrder.stock_operation = BUY_STOCK
                /\ quoted
                /\ FloatGe(OneOrder.price, ask)
                /\ summaries'.buy.fulfilled # summaries.buy.fulfilled =>
                    /\ portfolios'[k].buy_price = ask
                    /\ available_fund' = FloatSub(available_fund,
                           Round3(VolumeTimes(portfolios'[k].volume - Held(portfolios, k),
                                              ask)))
            /\ summaries'.sell.total # summaries.sell.total =>
                /\ OneOrder.stock_operation = SELL_STOCK
                /\ quoted
                /\ FloatLe(OneOrder.price, bid)
                /\ summaries'.sell.fulfilled # summaries.sell.fulfilled =>
                    /\ portfolios'[k].sell_price = bid
                    /\ available_fund' = FloatAdd(available_fund,
                           Round3(VolumeTimes(portfolios[k].volume - portfolios'[k].volume,
                                              bid)))
            /\ summaries' = summaries =>
                    available_fund' = available_fund /\ portfolios' = portfolios]_vars

\* a buy executed below its limit price, at the ask price
C11_Witness ==
    /\ ret.call = "step"
    /\ self_action.company_count = 1
    /\ self_action.orders[1].stock_operation = BUY_STOCK
    /\ \E k \in DOMAIN portfolios :
        /\ k = self_action.orders[1].company_id
        /\ portfolios[k].volume > 0
        /\ FloatGt(portfolios[k].buy_price, Zero)
        /\ FloatLt(portfolios[k].buy_price, self_action.orders[1].price)
        /\ available_fund = FloatSub(initial_fund,
               Round3(VolumeTimes(portfolios[k].volume, portfolios[k].buy_price)))

\* C12: a step whose action the action space does not contain fails with an assertion
\* and leaves the episode as it was: no order is applied and the ledger, day_index, the
\* tick counter, the rollover flag and the daily simulations are unchanged.
C12_InvalidStepChangesNothing ==
    [][(ret'.call = "step" /\ ret'.kind = "AssertionError") =>
        /\ available_fund' = available_fund
        /\ portfolios' = portfolios
        /\ summaries' = summaries
        /\ step_day_count' = step_day_count
        /\ step_minute_count' = step_minute_count
        /\ need_move_day_forward' = need_move_day_forward
        /\ daily_simulation_data' = daily_simulation_data]_vars

\* C13: a step that moves day_index past the last row of the index table ends the
\* episode with done = true; no step raises an error because the index data ran out.
C13_EndOfIndexEndsEpisode ==
    StepReturned =>
        /\ ret.kind # "IndexError"
        /\ min_stock_seq + step_day_count >= NumIndexRows
               => ret.kind \in {"sentinel", "None"}

\* C14: an order for an unknown company id or for a company with no active simulation
\* on the current day is skipped silently: no error, no entry in the info transactions,
\* and available_fund, all holdings and the buy/sell order counts are unchanged by it.
C14_UntradableOrderIsSkipped ==
    [][(OneOrderStep /\ OneOrder.company_id \notin DOMAIN daily_simulation_data') =>
        /\ ~info'.empty
        /\ OneOrder.company_id \notin DOMAIN info'.transactions
        /\ OneOrder.company_id \notin info'.companies
        /\ available_fund' = available_fund
        /\ portfolios' = portfolios
        /\ summaries' = summaries]_vars

\* a buy or sell order was skipped for a company that is not simulated on the day but
\* still has the prices of an earlier day
C14_Witness ==
    /\ ret.call = "step"
    /\ ret.kind = "obs"
    /\ self_action.company_count = 1
    /\ self_action.orders[1].stock_operation \in {BUY_STOCK, SELL_STOCK}
    /\ self_action.orders[1].company_id \notin DOMAIN daily_simulation_data
    /\ self_action.orders[1].company_id \in DOMAIN daily_simulation_prices

\* C15: a top-up or withdraw order is accepted and inert: available_fund, bank_balance,
\* every holding and the order counts are the same after it as before; hence
\* bank_balance equals initial_bank_balance in every reachable state.
C15_TopUpAndWithdrawAreInert ==
    [][/\ bank_balance = initial_bank_balance
       /\ bank_balance' = initial_bank_balance
       /\ (OneOrderStep /\ OneOrder.stock_operation \in {TOP_UP_FUND, WITHDRAW_FUND}) =>
            /\ ~info'.empty
            /\ info'.transactions = EmptyMap
            /\ available_fund' = available_fund
            /\ bank_balance' = bank_balance
            /\ portfolios' = portfolios
            /\ summaries' = summaries]_vars

\* a top-up order of a positive amount was applied to a ledger with a holding
C15_Witness ==
    /\ ret.call = "step"
    /\ ret.kind = "obs"
    /\ self_action.company_count = 1
    /\ self_action.orders[1].stock_operation = TOP_UP_FUND
    /\ self_action.orders[1].volume > 0
    /\ self_action.orders[1].company_id \in info.companies
    /\ \E k \in DOMAIN portfolios : portfolios[k].volume > 0

\* C16: two runs seeded with the same seed through seed() and fed the same data and the
\* same actions select the same template days and source companies: an episode begun
\* right after seed(s) on the same start row as an earlier episode begun right after
\* seed(s) has the simulations of that one.
C16_SameSeedSameTemplates ==
    [][(ret'.call = "reset" /\ episode' = episode + 1
            /\ seeded_draw # NoDraw /\ seeded_draw.seed = np_random
            /\ seeded_draw.seq = min_stock_seq') =>
        /\ seeded_draw'.selected = seeded_draw.selected
        /\ daily_simulation_data' = daily_simulation_data]_vars

\* total_amount and the value of the holdings keys of held, a company simulated on the
\* day (in data) counted at its current price and any other at the last price of its
\* holding
RECURSIVE ValueByActiveSimulation(_, _, _, _, _)
ValueByActiveSimulation(total_amount, held, keys, data, prices) ==
    IF keys = << >> THEN total_amount
    ELSE LET k == Head(keys)
             price == IF k \in DOMAIN data /\ k \in DOMAIN prices
                      THEN prices[k].price ELSE held[k].price
         IN  ValueByActiveSimulation(FloatAdd(total_amount, VolumeTimes(held[k].volume, price)),
                                     held, Tail(keys), data, prices)

\* C17: when the total value is computed, a holding whose company has no active
\* simulation on the current day is valued at the holding's last transacted price and
\* a holding whose company has one at that simulation's current price, also after
\* rollovers and resets that drop a company from the simulated set.
C17_DroppedCompanyValuedAtLastPrice ==
    [][StepTaken =>
        total_value' = Round2(ValueByActiveSimulation(available_fund', portfolios',
                                  portfolio_keys', daily_simulation_data',
                                  daily_simulation_prices))]_vars

\* the ledger of the example: 100000 of cash, no holding
ExampleLedger ==
    [available_fund |-> FloatOfInt(100000), portfolios |-> EmptyMap, keys |-> << >>,
     summaries |-> [buy |-> [total |-> 0, fulfilled |-> 0],
                    sell |-> [total |-> 0, fulfilled |-> 0]]]

\* the example: 10 shares bought at 50, then sold at 55
ExampleBought == _buy_stock(ExampleLedger, 1, FloatOfInt(50), 10)
ExampleSold == _sell_stock(ExampleBought.ledger, 1, FloatOfInt(55), 10)

\* C18: for a company not held before, a fulfilled buy of volume v at ask a followed by
\* a fulfilled sell of the same volume at bid b leaves available_fund = start -
\* round(v*a, 3) + round(v*b, 3) and the holding retained with volume 0, buy_price a
\* and sell_price b (100000 -> 99500 -> 100050 for v = 10, a = 50, b = 55): in one
\* batch, and with the sell in the step after the buy.
C18_BuyThenSellRoundTrip ==
    [][/\ ExampleBought.fulfilled
       /\ ExampleBought.ledger.available_fund = FloatOfInt(99500)
       /\ ExampleSold.fulfilled
       /\ ExampleSold.ledger.available_fund = FloatOfInt(100050)
       /\ ExampleSold.ledger.portfolios
              = (1 :> StockRecord(1, 0, FloatOfInt(50), FloatOfInt(55), FloatOfInt(55)))
       /\ (StepTaken /\ self_action'.company_count = 2
              /\ summaries'.buy.fulfilled = summaries.buy.fulfilled + 1
              /\ summaries'.sell.fulfilled = summaries.sell.fulfilled + 1) =>
            LET buy == self_action'.orders[1]
                sell == self_action'.orders[2]
                k == buy.company_id
                a == daily_simulation_prices[k].ask_price
                b == daily_simulation_prices[k].bid_price
            IN  (buy.stock_operation = BUY_STOCK /\ sell.stock_operation = SELL_STOCK
                    /\ sell.company_id = k /\ buy.volume = sell.volume /\ buy.volume > 0
                    /\ k \notin DOMAIN portfolios) =>
                    /\ available_fund' =
                           FloatAdd(FloatSub(available_fund,
                                             Round3(VolumeTimes(buy.volume, a))),
                                    Round3(VolumeTimes(buy.volume, b)))
                    /\ portfolios' = Put(portfolios, k, StockRecord(k, 0, a, b, b))
       /\ (OneOrderStep /\ OneOrder.stock_operation = SELL_STOCK
              /\ summaries'.sell.fulfilled = summaries.sell.fulfilled + 1) =>
            LET k == OneOrder.company_id
                v == OneOrder.volume
                a == portfolios[k].buy_price
                b == daily_simulation_prices[k].bid_price
            IN  (v > 0 /\ portfolios[k] = StockRecord(k, v, a, Zero, a)
                    /\ available_fund = FloatSub(initial_fund, Round3(VolumeTimes(v, a)))) =>
                    /\ available_fund' =
                           FloatAdd(FloatSub(initial_fund, Round3(VolumeTimes(v, a))),
                                    Round3(VolumeTimes(v, b)))
                    /\ portfolios' = Put(portfolios, k, StockRecord(k, 0, a, b, b))]_vars

\* a holding bought in one step was sold whole in the next, at another price
C18_Witness ==
    /\ ret.call = "step"
    /\ self_action.company_count = 1
    /\ self_action.orders[1].stock_operation = SELL_STOCK
    /\ self_action.orders[1].volume > 0
    /\ \E k \in DOMAIN portfolios :
        /\ k = self_action.orders[1].company_id
        /\ portfolios[k].volume = 0
        /\ FloatGt(portfolios[k].buy_price, Zero)
        /\ FloatGt(portfolios[k].sell_price, Zero)
        /\ portfolios[k].sell_price # portfolios[k].buy_price
        /\ available_fund =
               FloatAdd(FloatSub(initial_fund,
                                 Round3(VolumeTimes(self_action.orders[1].volume,
                                                    portfolios[k].buy_price))),
                        Round3(VolumeTimes(self_action.orders[1].volume,
                                           portfolios[k].sell_price)))

\* C19: synthesizing the simulation of a price bar with high = low (high = low = 0
\* included) does not raise and yields a flat price path: every tick at the open price
\* of the bar.
C19_DegenerateBarGivesFlatPath ==
    /\ ret.kind # "ZeroDivisionError"
    /\ \A k \in DOMAIN daily_simulation_data :
        LET sim == daily_simulation_data[k]
            path == sim.prices
        IN  sim.high_price = sim.low_price =>
                /\ Len(path) > 0
                /\ \A i \in 1..Len(path) :
                     /\ path[i].price = sim.open_price
                     /\ path[i].ask_price = sim.open_price
                     /\ path[i].bid_price = sim.open_price

\* the price bar a simulation was synthesized from is one of the bars of the date
FromBarsOf(date, sim) ==
    LET rows == price_df(date)
    IN  \E i \in 1..Len(rows) :
            /\ rows[i].company_id = sim.company_id
            /\ rows[i].open_price = sim.open_price
            /\ rows[i].close_price = sim.close_price
            /\ rows[i].high_price = sim.high_price
            /\ rows[i].low_price = sim.low_price

\* a step that starts with the rollover the step before asked for
RolloverStep == need_move_day_forward /\ ret'.call = "step"

\* C20: on a day rollover day_index increments by 1, the tick counter is reset to 0 (the
\* observation of the step is that of tick 0, 10:00), and the simulations of the day
\* are synthesized from the price bars of the new day.
C20_RolloverUsesBarsOfNewDay ==
    [][RolloverStep =>
        LET new_date == _get_current_display_date(min_stock_seq, step_day_count + 1)
        IN  /\ step_day_count' = step_day_count + 1
            /\ step_minute_count' <= 1
            /\ ret'.kind = "obs" => /\ ret'.obs.day = step_day_count + 1
                                    /\ ret'.obs.second = 10 * 3600
            /\ DateIsTrue(new_date) =>
                   \A k \in DOMAIN daily_simulation_data' :
                       FromBarsOf(new_date, daily_simulation_data'[k])]_vars

\* floor(a / b) for a >= 0 and b > 0
FloorDiv(a, b) == FloatToInt(FloatDiv(a, b))

\* C21: a buy of volume 0 at an ask price > 0 fills the largest whole number of shares v
\* with v * ask_price <= available_fund, which is v = floor(available_fund / ask_price),
\* and afterwards less than one share's price of the cash remains.
C21_BuyAllLeavesLessThanOneShare ==
    [][\A price \in BuyAllPrices :
          buy_all(1, price) =>
              /\ 1 \in DOMAIN portfolios'
              /\ LET v == portfolios'[1].volume
                 IN  /\ FloatLe(VolumeTimes(v, price), available_fund)
                     /\ FloatGt(VolumeTimes(v + 1, price), available_fund)
                     /\ v = FloorDiv(available_fund, price)
              /\ FloatLt(available_fund', price)]_vars

\* C22: a fulfilled buy on a company with no holding creates one with the filled volume,
\* buy_price = last price = ask price and sell_price = 0; a fulfilled buy on an existing
\* holding adds the filled volume and overwrites buy_price and last price with the ask
\* price of this fill, leaving sell_price and the holding of every other company
\* unchanged.
C22_BuyCreatesOrAccumulates ==
    [][(OneOrderStep /\ summaries'.buy.fulfilled = summaries.buy.fulfilled + 1) =>
        LET k == OneOrder.company_id
            ask == daily_simulation_prices[k].ask_price
            filled == portfolios'[k].volume - Held(portfolios, k)
        IN  /\ k \in DOMAIN portfolios'
            /\ OneOrder.volume > 0 => filled = OneOrder.volume
            /\ available_fund' = FloatSub(available_fund, Round3(VolumeTimes(filled, ask)))
            /\ IF k \in DOMAIN portfolios
               THEN /\ portfolios'[k].volume = portfolios[k].volume + filled
                    /\ portfolios'[k].buy_price = ask
                    /\ portfolios'[k].price = ask
                    /\ portfolios'[k].sell_price = portfolios[k].sell_price
                    /\ portfolios'[k].company_id = portfolios[k].company_id
               ELSE portfolios'[k] = StockRecord(k, filled, ask, Zero, ask)
            /\ OthersUnchanged(k)]_vars

\* a fulfilled buy on a holding that was sold from before: its sell_price is kept
C22_Witness ==
    /\ ret.call = "step"
    /\ self_action.company_count = 1
    /\ self_action.orders[1].stock_operation = BUY_STOCK
    /\ summaries.buy.fulfilled >= 2
    /\ \E k \in (DOMAIN portfolios) \cap (DOMAIN info.transactions) :
        /\ k = self_action.orders[1].company_id
        /\ info.transactions[k].action = "buy"
        /\ info.transactions[k].fulfilled
        /\ FloatGt(portfolios[k].sell_price, Zero)
        /\ portfolios[k].volume > 0
        /\ portfolios[k].price = portfolios[k].buy_price

\* the batch of the one order at index i of an action
OneOf(a, i) == Action(<< a.orders[i] >>, FALSE)

\* the ledger after the orders i.. of the batch of a, each applied on its own to the
\* ledger the one before it left
RECURSIVE OneByOne(_, _, _, _, _)
OneByOne(ledger, a, i, data, prices) ==
    IF i > a.company_count THEN ledger
    ELSE OneByOne(_apply_asx_action(ledger, data, prices, OneOf(a, i)).ledger,
                  a, i + 1, data, prices)

\* C23: the orders of a batch are applied one after another in index order, each
\* against the ledger left by the orders before it, and the entries at index >=
\* company_count are never applied.
C23_OrdersApplyInIndexOrder ==
    [][StepTaken =>
        LET a == self_action'
            after == [available_fund |-> available_fund', portfolios |-> portfolios',
                      keys |-> portfolio_keys', summaries |-> summaries']
        IN  /\ after = OneByOne(Ledger, a, 1, daily_simulation_data',
                                daily_simulation_prices)
            /\ a.company_count = 0 => after = Ledger
            /\ summaries'.buy.total + summaries'.sell.total
                   <= summaries.buy.total + summaries.sell.total + a.company_count]_vars

\* a batch whose sell, at the first index, paid for its buy, at the second: the cash
\* before the step was less than the amount of the buy
C23_Witness ==
    /\ ret.call = "step"
    /\ self_action.company_count = 2
    /\ self_action.orders[1].stock_operation = SELL_STOCK
    /\ self_action.orders[2].stock_operation = BUY_STOCK
    /\ self_action.orders[1].company_id = self_action.orders[2].company_id
    /\ summaries.sell = [total |-> 1, fulfilled |-> 1]
    /\ \E k \in (DOMAIN portfolios) \cap (DOMAIN info.transactions) :
        /\ k = self_action.orders[2].company_id
        /\ info.transactions[k].action = "buy"
        /\ info.transactions[k].fulfilled
        /\ FloatLt(FloatSub(FloatAdd(available_fund,
                                     Round3(VolumeTimes(self_action.orders[2].volume,
                                                        portfolios[k].buy_price))),
                            Round3(VolumeTimes(self_action.orders[1].volume,
                                               portfolios[k].sell_price))),
                   Round3(VolumeTimes(self_action.orders[2].volume,
                                      portfolios[k].buy_price)))

\* the ticks of a simulation are those of the first rows, by seconds, of the group
TicksOfGroup(sim, group) ==
    /\ Len(sim.prices) = Min(Cardinality(group), MaxTemplateTicks)
    /\ \A i \in 1..Len(sim.prices) :
        \E r \in group :
            /\ Cardinality({o \in group : o.seconds < r.seconds}) = i - 1
            /\ sim.prices[i] = [ask_price |-> Denormalize(sim, r.normalized_ask_price),
                                bid_price |-> Denormalize(sim, r.normalized_bid_price),
                                price |-> Denormalize(sim, r.normalized_stock_price)]

\* C24: for a price bar whose rounded ratio round(low / high, 3) matches no historical
\* template the simulation has zero ticks; otherwise its ticks all come from one single
\* (day, source company) group whose recorded ratio equals that ratio, in increasing
\* order of elapsed seconds, and there are at most 22 of them.
C24_TicksComeFromOneTemplate ==
    \A k \in DOMAIN daily_simulation_data :
        LET sim == daily_simulation_data[k]
            ratio == normalized_price(sim.high_price, sim.low_price)
            matched == {r \in daily_simulation_df : r.normalized_low_price = ratio}
        IN  /\ Len(sim.prices) <= 22
            /\ IF matched = {} THEN Len(sim.prices) = 0
               ELSE \E d \in {r.day : r \in matched} : \E c \in {r.cid : r \in matched} :
                        LET group == {r \in matched : r.day = d /\ r.cid = c}
                        IN  group # {} /\ TicksOfGroup(sim, group)

\* a simulation cut to 22 ticks, of a recorded day that has more
C24_Witness ==
    \E k \in DOMAIN daily_simulation_data :
        /\ Len(daily_simulation_data[k].prices) = 22
        /\ \E r \in daily_simulation_df :
            /\ r.normalized_low_price = normalized_price(daily_simulation_data[k].high_price,
                                                         daily_simulation_data[k].low_price)
            /\ r.seconds >= 22 * 900

\* C25: after reset, whatever steps and episodes came before, the ledger and the
\* counters are those of a fresh episode: available_fund = initial_fund, bank_balance =
\* initial_bank_balance, the portfolio is empty, day_index = 0, the tick counter = 0, the
\* rollover flag is cleared and the previous total of the next reward is initial_fund.
C25_ResetStartsFresh ==
    ret.call = "reset" =>
        /\ available_fund = initial_fund
        /\ bank_balance = initial_bank_balance
        /\ portfolios = EmptyMap
        /\ portfolio_keys = << >>
        /\ step_day_count = 0
        /\ step_minute_count = 0
        /\ need_move_day_forward = FALSE
        /\ previous_total_fund = initial_fund
        /\ ret.kind = "obs" =>
            /\ ret.obs.available_fund = initial_fund
            /\ ret.obs.portfolio_company_count = 0
            /\ ret.obs.day = 0

\* a reset after an episode that bought and sold and whose total value moved
C25_Witness ==
    /\ ret.call = "reset"
    /\ episode >= 2
    /\ summaries.sell.fulfilled > 0
    /\ reward # Zero
    /\ total_value # initial_fund
    /\ total_value # Zero

\* C26: in every reachable state, across steps and resets, the count of fulfilled buys
\* is <= the count of buy orders and the count of fulfilled sells is <= the count of
\* sell orders of the transaction summary, and all four counts are 0 right after a reset.
C26_FulfilledCountsWithinTotals ==
    /\ summaries.buy.fulfilled <= summaries.buy.total
    /\ summaries.sell.fulfilled <= summaries.sell.total
    /\ ret.call = "reset" =>
        /\ summaries.buy.total = 0
        /\ summaries.buy.fulfilled = 0
        /\ summaries.sell.total = 0
        /\ summaries.sell.fulfilled = 0

\* C27: within a step, the info record of an order reports fulfilled = true only if that
\* order itself was executed by the ledger as a fulfilled buy or sell; an order recorded
\* as 'hold' (a hold, or a buy or sell stopped by the limit-price gate) always reports
\* fulfilled = false, whatever orders preceded it in the batch.
C27_HoldRecordIsNeverFulfilled ==
    StepReturned =>
        \A k \in DOMAIN info.transactions :
            /\ info.transactions[k].action = "hold" => ~info.transactions[k].fulfilled
            /\ info.transactions[k].fulfilled =>
                   /\ info.transactions[k].action \in {"buy", "sell"}
                   /\ k \in DOMAIN portfolios

\* C28: the price in the info record of an executed buy or sell equals the price at which
\* the ledger executed it: the current ask price for a buy and the current bid price for
\* a sell.
C28_InfoPriceIsExecutionPrice ==
    [][StepTaken =>
        \A k \in DOMAIN info'.transactions :
            LET t == info'.transactions[k]
            IN  /\ t.action = "buy" =>
                       t.price = daily_simulation_prices[k].ask_price
                /\ t.action = "sell" =>
                       t.price = daily_simulation_prices[k].bid_price]_vars

\* C29: termination is absorbing: once a step of an episode has found the termination
\* condition true, every later step before the next reset also finds it true, and those
\* later steps change neither available_fund nor any holding.
C29_TerminationIsAbsorbing ==
    [][(ret.call = "step" /\ ret.kind \in {"sentinel", "None"} /\ StepTaken) =>
        /\ ret'.kind \in {"sentinel", "None"}
        /\ available_fund' = available_fund
        /\ portfolios' = portfolios]_vars

\* the ratios round(low / high, 3) of the price bars of a date
RatiosOfDate(date) ==
    LET rows == price_df(date)
    IN  {normalized_price(rows[i].high_price, rows[i].low_price) : i \in 1..Len(rows)}

\* C30: the template cache is emptied at the start of every simulated day (on reset and
\* on every day rollover), and at any time each cache entry for a ratio key equals the
\* set of historical template rows whose recorded ratio equals that ratio, so that a
\* lookup through the cache returns the same rows as a direct filter of the table.
\* After a reset or a rollover the keys of the cache are the ratios of the bars of the
\* day, those of the bars before the one that raised when the generation raised.
C30_CacheIsFilterOfTheDay ==
    [][/\ \A ratio \in DOMAIN cached_simulation_records' :
            cached_simulation_records'[ratio]
                = {r \in daily_simulation_df : r.normalized_low_price = ratio}
       /\ (ret'.call = "reset" \/ RolloverStep) =>
            IF ret'.kind = "ZeroDivisionError"
            THEN DOMAIN cached_simulation_records' \subseteq RatiosOfDate(display_date')
            ELSE DOMAIN cached_simulation_records' = RatiosOfDate(display_date')]_vars

\* a day whose cache was looked up: two of its simulations have the same ratio, and the
\* day before it had a ratio that this day has not
C30_Witness ==
    /\ episode >= 2
    /\ ret.call = "reset"
    /\ \E j \in DOMAIN daily_simulation_data : \E k \in DOMAIN daily_simulation_data :
        /\ j # k
        /\ normalized_price(daily_simulation_data[j].high_price,
                            daily_simulation_data[j].low_price)
             = normalized_price(daily_simulation_data[k].high_price,
                                daily_simulation_data[k].low_price)
        /\ cached_simulation_records[normalized_price(daily_simulation_data[k].high_price,
                                                      daily_simulation_data[k].low_price)] # {}
    /\ \E date \in 0..(NumIndexRows - 1) :
        RatiosOfDate(date) \ DOMAIN cached_simulation_records # {}

====
